---- MODULE Spec2Model ----
(***************************************************************************)
(* A model of the replication receiver of lightyear                        *)
(* (src/lightyear/src/shared/replication/receive.rs): the per-group        *)
(* GroupChannel that buffers action and update messages, read_messages     *)
(* that releases them, and apply_world that applies them to the world;     *)
(* and of the client's connection state machine                            *)
(* (src/lightyear/src/client/networking.rs): the receive and send phases   *)
(* of a frame, the NetworkingState transitions and what runs on them.      *)
(***************************************************************************)
EXTENDS Integers, Sequences, FiniteSets, TLC

VARIABLES
    group_channels,          \* ReplicationReceiver.group_channels
    remote_entity_map,       \* ReplicationReceiver.remote_entity_map (remote -> local)
    remote_entity_to_group,  \* ReplicationReceiver.remote_entity_to_group
    world,                   \* the bevy World the receiver writes into
    events,                  \* the ConnectionEvents pushed so far
    panicked,                \* TRUE once an assert! of apply_world has failed
    returned,                \* what the last read_messages call returned: group -> messages
    last_call,               \* the last call made on the receiver, and for recv_message its arm
    applied,                 \* per group: every message read_messages has returned so far
    delivered,               \* the messages handed to recv_message so far, in order
    nrecv,                   \* number of recv_message calls so far
    srv_tick,                \* sender: the server's current tick
    srv_channel,             \* sender: per group, next sequence id and last_action_tick
    net,                     \* messages the sender has emitted (may be delivered, duplicated, lost)
    state,                   \* State<NetworkingState>
    next_state,              \* NextState<NetworkingState>: "None" or the state asked for
    net_state,               \* ClientConnection.state()
    io_state,                \* ClientConnection.io(): "NoIo", or the io's IoState
    status_channel,          \* what try_recv on the io's status channel yields next
    transport_up,            \* the transport's background task has connected
    handshake,               \* handshake steps the client connection has completed
    synced,                  \* ConnectionManager.sync_manager.synced
    mode,                    \* ClientConfig.shared.mode
    manager_id,              \* number of ConnectionManagers built so far
    old_cursor,              \* largest receive cursor of the ConnectionManager replaced last
    marked,                  \* the entities with a Replicated, Predicted or Interpolated marker
    net_events,              \* ConnectEvent / DisconnectEvent sent in this frame, in order
    last_event,              \* history: type of the last client event sent in any frame
    pc,                      \* the schedule of the frame that runs next
    ran,                     \* systems of PreUpdate that already ran in this frame
    entered_initial,         \* OnEnter of the initial state has run
    last_recv,               \* what the last run of the receive system did
    last_send,               \* what the last run of the send system did
    ncmd,                    \* commands the application has issued so far
    npkt,                    \* packets the transport has handed to receive so far
    server_events,           \* ServerEvents: disconnections, events (per client), empty
    iterated,                \* what the last into_iter_messages call of ServerEvents yielded
    generated,               \* ticks a tick counter has taken, each with the increments before it
    pred,                    \* a predicted entity: tick, value, history, input buffer, last operation
    interp,                  \* an interpolated entity: snapshot buffer and what the last frame rendered
    host                     \* the server entities of a host-server: Replicate, PrePredicted, markers

vars == <<group_channels, remote_entity_map, remote_entity_to_group, world, events,
          panicked, returned, last_call, applied, delivered, nrecv,
          srv_tick, srv_channel, net,
          state, next_state, net_state, io_state, status_channel, transport_up, handshake,
          synced, mode, manager_id, old_cursor, marked, net_events, last_event,
          pc, ran,
          entered_initial, last_recv, last_send, ncmd, npkt,
          server_events, iterated, generated, pred, interp, host>>

receiver_vars == <<group_channels, remote_entity_map, remote_entity_to_group, world,
                   events, panicked, returned, last_call, applied, delivered, nrecv>>
sender_vars == <<srv_tick, srv_channel, net>>
client_vars == <<state, next_state, net_state, io_state, status_channel, transport_up,
                 handshake, synced, mode, manager_id, old_cursor, marked, net_events,
                 last_event, pc, ran, entered_initial, last_recv, last_send, ncmd, npkt>>
server_vars == <<server_events, iterated>>
tick_vars == <<generated>>
engine_vars == <<pred, interp, host>>

(***************************************************************************)
(* Bounds of the model.                                                    *)
(***************************************************************************)
MaxRecv == 3        \* recv_message calls in one behaviour
MaxSend == 4        \* messages the modelled sender emits in one behaviour

(***************************************************************************)
(* Tick and MessageId: 16-bit wrapping integers, compared by the sign of   *)
(* the wrapping difference.                                                *)
(***************************************************************************)
TickMod == 65536

Wrap(x) == x % TickMod

\* (a - b) as i16
WrappingDiff(a, b) ==
    LET d == (a - b) % TickMod
    IN  IF d >= TickMod \div 2 THEN d - TickMod ELSE d

TickLt(a, b) == WrappingDiff(a, b) < 0
TickLe(a, b) == a = b \/ TickLt(a, b)
TickGt(a, b) == a # b /\ ~TickLt(a, b)

\* a hash map is a function whose domain is the set of its keys
MapInsert(map, key, value) ==
    [x \in DOMAIN map \cup {key} |-> IF x = key THEN value ELSE map[x]]

MapRemove(map, key) == [x \in DOMAIN map \ {key} |-> map[x]]

EmptyMap == <<>>

(***************************************************************************)
(* std BTreeMap as the receiver uses it: the entries of a map of at most   *)
(* 11 keys sit in one leaf node, in key order; every lookup scans the node *)
(* from the left and stops at the first stored key that is not smaller     *)
(* than the key searched for.  An entry is a record with its key in k.     *)
(***************************************************************************)
RECURSIVE SearchNode(_, _, _)
SearchNode(node, key, i) ==
    IF i > Len(node) THEN i
    ELSE IF TickGt(key, node[i].k) THEN SearchNode(node, key, i + 1)
    ELSE i

BTreeFound(node, key) ==
    LET i == SearchNode(node, key, 1)
    IN  i <= Len(node) /\ node[i].k = key

InsertAt(node, i, e) == SubSeq(node, 1, i - 1) \o <<e>> \o SubSeq(node, i, Len(node))
RemoveAt(node, i) == SubSeq(node, 1, i - 1) \o SubSeq(node, i + 1, Len(node))

\* BTreeMap::insert: replaces the value of a key already present
BTreeInsert(node, e) ==
    LET i == SearchNode(node, e.k, 1)
    IN  IF i <= Len(node) /\ node[i].k = e.k
        THEN [node EXCEPT ![i] = e]
        ELSE InsertAt(node, i, e)

\* BTreeMap::entry(k).or_insert(v) / or_default(): keeps the value of a key already present
BTreeOrInsert(node, e) ==
    IF BTreeFound(node, e.k) THEN node ELSE InsertAt(node, SearchNode(node, e.k, 1), e)

BTreeGet(node, key) == node[SearchNode(node, key, 1)]

BTreeRemove(node, key) ==
    IF BTreeFound(node, key) THEN RemoveAt(node, SearchNode(node, key, 1)) ELSE node

\* BTreeMap::split_off(&key): self keeps the keys before key, the result has the rest
SplitLeft(node, key) == SubSeq(node, 1, SearchNode(node, key, 1) - 1)
SplitRight(node, key) == SubSeq(node, SearchNode(node, key, 1), Len(node))

(***************************************************************************)
(* GroupChannel                                                            *)
(***************************************************************************)
GroupChannelDefault ==
    [ actions_pending_recv_message_id |-> 0,
      actions_recv_message_buffer |-> <<>>,
      buffered_updates |-> <<>>,
      latest_tick |-> 0 ]

\* group_channels.entry(group_id).or_default()
ChannelOrDefault(channels, g) ==
    IF g \in DOMAIN channels THEN channels[g] ELSE GroupChannelDefault

\* the too-old test on the raw u16 (65535 is not before 0)
ActionTooOldUnwrapped(sequence_id, pending) == sequence_id < pending

\* recv_message, Actions arm: "if the message is too old, ignore it"
ActionTooOld(sequence_id, pending) == TickLt(sequence_id, pending)

\* the stale test with < for <=
UpdateTooOldStrict(remote_tick, latest) == TickLt(remote_tick, latest)

\* recv_message, Updates arm: "if we have already applied a more recent update"
UpdateTooOld(remote_tick, latest) == TickLe(remote_tick, latest)

\* recv_message, Actions arm, keeping only the message the cursor is waiting for
recv_actions_pending_only(channel, m) ==
    IF m.sequence_id /= channel.actions_pending_recv_message_id
    THEN channel
    ELSE [channel EXCEPT !.actions_recv_message_buffer =
              BTreeInsert(@, [k |-> m.sequence_id, tick |-> m.remote_tick, m |-> m])]

recv_actions(channel, m) ==
    IF ActionTooOld(m.sequence_id, channel.actions_pending_recv_message_id)
    THEN channel
    ELSE [channel EXCEPT !.actions_recv_message_buffer =
              BTreeInsert(@, [k |-> m.sequence_id, tick |-> m.remote_tick, m |-> m])]

recv_updates(channel, m) ==
    IF UpdateTooOld(m.remote_tick, channel.latest_tick)
    THEN channel
    ELSE LET outer == BTreeOrInsert(channel.buffered_updates,
                                    [k |-> m.last_action_tick, updates |-> <<>>])
             i == SearchNode(outer, m.last_action_tick, 1)
         IN  [channel EXCEPT !.buffered_updates =
                 [outer EXCEPT ![i].updates =
                     BTreeOrInsert(@, [k |-> m.remote_tick, m |-> m])]]

recv_message_channel(channel, m) ==
    IF m.kind = "Actions" THEN recv_actions(channel, m) ELSE recv_updates(channel, m)

\* the arm recv_message ends in: the early return, or the insertion into the buffer
RecvOutcome(channel, m) ==
    IF m.kind = "Actions"
    THEN IF ActionTooOld(m.sequence_id, channel.actions_pending_recv_message_id)
         THEN "ActionsIgnored" ELSE "ActionsBuffered"
    ELSE IF UpdateTooOld(m.remote_tick, channel.latest_tick)
         THEN "UpdatesIgnored" ELSE "UpdatesBuffered"

\* read_action: Some(message) and the channel after it, or None
ReadActionReady(channel) ==
    BTreeFound(channel.actions_recv_message_buffer, channel.actions_pending_recv_message_id)

ReadActionLatest(latest, message_tick) == message_tick

\* read_action without `self.actions_pending_recv_message_id += 1`
read_action_cursor_kept(channel) ==
    LET id == channel.actions_pending_recv_message_id
        message == BTreeGet(channel.actions_recv_message_buffer, id)
    IN  [ channel |-> [channel EXCEPT
                          !.actions_recv_message_buffer = BTreeRemove(@, id),
                          !.latest_tick = ReadActionLatest(@, message.tick)],
          message |-> message.m ]

read_action(channel) ==
    LET id == channel.actions_pending_recv_message_id
        message == BTreeGet(channel.actions_recv_message_buffer, id)
    IN  [ channel |-> [channel EXCEPT
                          !.actions_recv_message_buffer = BTreeRemove(@, id),
                          !.actions_pending_recv_message_id = Wrap(id + 1),
                          !.latest_tick = ReadActionLatest(@, message.tick)],
          message |-> message.m ]

\* an `if let` for the `while let`: at most one action per call
ReadActionsOnce(channel, res) ==
    IF ReadActionReady(channel)
    THEN [channel |-> read_action(channel).channel,
          res |-> Append(res, read_action(channel).message)]
    ELSE [channel |-> channel, res |-> res]

\* the `while let Some(..) = self.read_action()` loop of read_messages
RECURSIVE ReadActions(_, _)
ReadActions(channel, res) ==
    IF ReadActionReady(channel)
    THEN LET r == read_action(channel)
         IN  ReadActions(r.channel, Append(res, r.message))
    ELSE [channel |-> channel, res |-> res]

\* "only push the update if the update's tick is more recent than ... latest_tick"
\* the comparison on the raw u16
UpdateIsNewerUnwrapped(latest, tick) == latest < tick

UpdateIsNewer(latest, tick) == TickLt(latest, tick)

\* the inner loop of read_buffered_updates over one BTreeMap<Tick, update>
RECURSIVE ConsiderUpdates(_, _, _, _)
ConsiderUpdates(updates, i, latest, res) ==
    IF i > Len(updates) THEN [latest |-> latest, res |-> res]
    ELSE IF UpdateIsNewer(latest, updates[i].k)
         THEN ConsiderUpdates(updates, i + 1, updates[i].k, Append(res, updates[i].m))
         ELSE ConsiderUpdates(updates, i + 1, latest, res)

\* the outer loop of read_buffered_updates over buffered_updates_to_consider
RECURSIVE ConsiderBuffered(_, _, _, _)
ConsiderBuffered(to_consider, i, latest, res) ==
    IF i > Len(to_consider) THEN [latest |-> latest, res |-> res]
    ELSE LET r == ConsiderUpdates(to_consider[i].updates, 1, latest, res)
         IN  ConsiderBuffered(to_consider, i + 1, r.latest, r.res)

\* the key read_buffered_updates splits buffered_updates at
NotReadyFrom(latest) == Wrap(latest + 1)

\* read_buffered_updates without `self.buffered_updates = not_ready`
read_buffered_updates_not_restored(channel) ==
    LET split == NotReadyFrom(channel.latest_tick)
        to_consider == SplitLeft(channel.buffered_updates, split)
        r == ConsiderBuffered(to_consider, 1, channel.latest_tick, <<>>)
    IN  [ channel |-> [channel EXCEPT !.buffered_updates = <<>>,
                                      !.latest_tick = r.latest],
          res |-> r.res ]

read_buffered_updates(channel) ==
    LET split == NotReadyFrom(channel.latest_tick)
        not_ready == SplitRight(channel.buffered_updates, split)
        to_consider == SplitLeft(channel.buffered_updates, split)
        r == ConsiderBuffered(to_consider, 1, channel.latest_tick, <<>>)
    IN  [ channel |-> [channel EXCEPT !.buffered_updates = not_ready,
                                      !.latest_tick = r.latest],
          res |-> r.res ]

\* GroupChannel::read_messages: the actions that are ready, then the updates
channel_read_messages(channel) ==
    LET a == ReadActions(channel, <<>>)
        u == read_buffered_updates(a.channel)
    IN  [channel |-> u.channel, res |-> a.res \o u.res]

(***************************************************************************)
(* apply_world.  The receiver's side of the world is threaded through as   *)
(* a record st: map (remote_entity_map), r2g (remote_entity_to_group),     *)
(* world, events, panicked.  A world is [next, comps]: comps maps every    *)
(* live local entity to its components, next is the next entity id         *)
(* spawn_empty hands out.  A component is [kind, val]; the val of a        *)
(* Component4 is an Entity.                                                *)
(***************************************************************************)
Groups == {1, 2}
RemoteEntities == {101, 102}
ComponentKinds == {"Component1", "Component4"}

WorldDefault == [next |-> 1, comps |-> EmptyMap]

Alive(w) == DOMAIN w.comps

\* RemoteEntityMap::get_local is Some(map[remote]) when remote is mapped
is_mapped(map, remote) == remote \in DOMAIN map

\* the EntityMapper of RemoteEntityMap: an entity it does not know stays as it is
map_entity(map, entity) ==
    IF is_mapped(map, entity) THEN map[entity] ELSE entity

\* Component4::map_entities; the other components hold no Entity
map_entities(map, component) ==
    IF component.kind = "Component4"
    THEN [component EXCEPT !.val = map_entity(map, @)]
    ELSE component

\* RemoteEntityMap::get_by_remote is Ok when the entity is mapped and lives in the world
found_by_remote(st, remote) ==
    is_mapped(st.map, remote) /\ st.map[remote] \in Alive(st.world)

\* World::spawn_empty
world_spawn_empty(w) ==
    [next |-> w.next + 1, comps |-> MapInsert(w.comps, w.next, EmptyMap)]

\* World::despawn
world_despawn(w, local) == [w EXCEPT !.comps = MapRemove(@, local)]

\* component.insert / component.update / kind.remove on an entity of the world
write_component(w, local, component) ==
    [w EXCEPT !.comps[local] = MapInsert(@, component.kind, component.val)]

remove_component(w, local, kind) == [w EXCEPT !.comps[local] = MapRemove(@, kind)]

PushEvent(st, type, local, kind) ==
    [st EXCEPT !.events = Append(@, [type |-> type, entity |-> local, kind |-> kind])]

\* a first loop that spawns a local entity for every spawn it is sent
apply_spawn_entry_respawning(st, entry, group_id) ==
    IF entry.spawn /\ entry.despawn
    THEN [st EXCEPT !.panicked = TRUE]
    ELSE IF ~entry.spawn THEN st
    ELSE LET st1 == [st EXCEPT !.r2g = MapInsert(@, entry.entity, group_id)]
         IN  PushEvent([st1 EXCEPT !.world = world_spawn_empty(@),
                                   !.map = MapInsert(@, entry.entity, st1.world.next)],
                       "spawn", st1.world.next, "")

\* first loop of the Actions arm, one (entity, actions) entry
apply_spawn_entry(st, entry, group_id) ==
    IF entry.spawn /\ entry.despawn
    THEN [st EXCEPT !.panicked = TRUE]
    ELSE IF ~entry.spawn THEN st
    ELSE LET st1 == [st EXCEPT !.r2g = MapInsert(@, entry.entity, group_id)]
         IN  IF is_mapped(st1.map, entry.entity)
             THEN st1
             ELSE PushEvent([st1 EXCEPT !.world = world_spawn_empty(@),
                                        !.map = MapInsert(@, entry.entity, st1.world.next)],
                            "spawn", st1.world.next, "")

RECURSIVE apply_spawns(_, _, _, _)
apply_spawns(st, entries, i, group_id) ==
    IF i > Len(entries) \/ st.panicked THEN st
    ELSE apply_spawns(apply_spawn_entry(st, entries[i], group_id), entries, i + 1, group_id)

RECURSIVE apply_inserts(_, _, _, _)
apply_inserts(st, local, components, i) ==
    IF i > Len(components) THEN st
    ELSE LET component == map_entities(st.map, components[i])
         IN  apply_inserts(
                 [PushEvent(st, "insert", local, component.kind)
                     EXCEPT !.world = write_component(@, local, component)],
                 local, components, i + 1)

RECURSIVE apply_removes(_, _, _, _)
apply_removes(st, local, kinds, i) ==
    IF i > Len(kinds) THEN st
    ELSE apply_removes(
             [PushEvent(st, "remove", local, kinds[i])
                 EXCEPT !.world = remove_component(@, local, kinds[i])],
             local, kinds, i + 1)

\* the updates carried by an action message: mapped, then written
RECURSIVE apply_action_updates(_, _, _, _)
apply_action_updates(st, local, components, i) ==
    IF i > Len(components) THEN st
    ELSE LET component == map_entities(st.map, components[i])
         IN  apply_action_updates(
                 [PushEvent(st, "update", local, component.kind)
                     EXCEPT !.world = write_component(@, local, component)],
                 local, components, i + 1)

\* a second loop that takes every despawn as one of an entity it knows
apply_actions_entry_despawn_unchecked(st, entry) ==
    IF entry.despawn
    THEN LET local == map_entity(st.map, entry.entity)
         IN  PushEvent([st EXCEPT !.map = MapRemove(@, entry.entity),
                                  !.world = world_despawn(@, local),
                                  !.r2g = MapRemove(@, entry.entity)],
                       "despawn", local, "")
    ELSE IF ~found_by_remote(st, entry.entity) THEN st
         ELSE LET local == st.map[entry.entity]
              IN  apply_action_updates(
                      apply_removes(
                          apply_inserts(st, local, entry.insert, 1),
                          local, entry.remove, 1),
                      local, entry.updates, 1)

\* a second loop that runs the removes of an entry before its inserts
apply_actions_entry_removes_first(st, entry) ==
    IF entry.despawn
    THEN IF is_mapped(st.map, entry.entity)
         THEN LET local == st.map[entry.entity]
              IN  PushEvent([st EXCEPT !.map = MapRemove(@, entry.entity),
                                       !.world = world_despawn(@, local),
                                       !.r2g = MapRemove(@, entry.entity)],
                            "despawn", local, "")
         ELSE st
    ELSE IF ~found_by_remote(st, entry.entity) THEN st
         ELSE LET local == st.map[entry.entity]
              IN  apply_action_updates(
                      apply_inserts(
                          apply_removes(st, local, entry.remove, 1),
                          local, entry.insert, 1),
                      local, entry.updates, 1)

\* second loop of the Actions arm, one (entity, actions) entry
apply_actions_entry(st, entry) ==
    IF entry.despawn
    THEN IF is_mapped(st.map, entry.entity)
         THEN LET local == st.map[entry.entity]
              IN  PushEvent([st EXCEPT !.map = MapRemove(@, entry.entity),
                                       !.world = world_despawn(@, local),
                                       !.r2g = MapRemove(@, entry.entity)],
                            "despawn", local, "")
         ELSE st
    ELSE IF ~found_by_remote(st, entry.entity) THEN st
         ELSE LET local == st.map[entry.entity]
              IN  apply_action_updates(
                      apply_removes(
                          apply_inserts(st, local, entry.insert, 1),
                          local, entry.remove, 1),
                      local, entry.updates, 1)

RECURSIVE apply_actions(_, _, _)
apply_actions(st, entries, i) ==
    IF i > Len(entries) THEN st
    ELSE apply_actions(apply_actions_entry(st, entries[i]), entries, i + 1)

\* the components of an update message: written as received
RECURSIVE apply_update_components(_, _, _, _)
apply_update_components(st, local, components, i) ==
    IF i > Len(components) THEN st
    ELSE apply_update_components(
             [PushEvent(st, "update", local, components[i].kind)
                 EXCEPT !.world = write_component(@, local, components[i])],
             local, components, i + 1)

\* an Updates arm that makes the entity it does not find
apply_updates_entry_spawning(st, entry) ==
    LET local == map_entity(st.map, entry.entity)
        st1 == IF local \in Alive(st.world) THEN st
               ELSE [st EXCEPT !.world.comps = MapInsert(@, local, EmptyMap)]
    IN  apply_update_components(st1, local, entry.components, 1)

\* the Updates arm, one (entity, components) entry
apply_updates_entry(st, entry) ==
    IF ~found_by_remote(st, entry.entity) THEN st
    ELSE apply_update_components(st, st.map[entry.entity], entry.components, 1)

RECURSIVE apply_updates(_, _, _)
apply_updates(st, entries, i) ==
    IF i > Len(entries) THEN st
    ELSE apply_updates(apply_updates_entry(st, entries[i]), entries, i + 1)

\* one loop over the entries: each entity is spawned when its entry is reached
RECURSIVE apply_one_pass(_, _, _, _)
apply_one_pass(st, entries, i, group_id) ==
    IF i > Len(entries) \/ st.panicked THEN st
    ELSE LET spawned == apply_spawn_entry(st, entries[i], group_id)
         IN  apply_one_pass(IF spawned.panicked THEN spawned
                            ELSE apply_actions_entry(spawned, entries[i]),
                            entries, i + 1, group_id)

\* an apply_world whose Actions arm has one pass
apply_world_one_pass(st, replication, group_id) ==
    IF st.panicked THEN st
    ELSE IF replication.kind = "Actions"
    THEN apply_one_pass(st, replication.body, 1, group_id)
    ELSE apply_updates(st, replication.body, 1)

apply_world(st, replication, group_id) ==
    IF st.panicked THEN st
    ELSE IF replication.kind = "Actions"
    THEN LET spawned == apply_spawns(st, replication.body, 1, group_id)
         IN  IF spawned.panicked THEN spawned
             ELSE apply_actions(spawned, replication.body, 1)
    ELSE apply_updates(st, replication.body, 1)

\* the receive pass applies what read_messages returned for one group, in order
RECURSIVE apply_messages(_, _, _, _)
apply_messages(st, messages, i, group_id) ==
    IF i > Len(messages) THEN st
    ELSE apply_messages(apply_world(st, messages[i], group_id), messages, i + 1, group_id)

(***************************************************************************)
(* Messages.                                                               *)
(***************************************************************************)
ActionsMessage(g, sequence_id, remote_tick, actions) ==
    [ group_id |-> g, kind |-> "Actions", sequence_id |-> sequence_id,
      last_action_tick |-> 0, remote_tick |-> remote_tick, body |-> actions ]

UpdatesMessage(g, last_action_tick, remote_tick, updates) ==
    [ group_id |-> g, kind |-> "Updates", sequence_id |-> 0,
      last_action_tick |-> last_action_tick, remote_tick |-> remote_tick, body |-> updates ]

EntityActions(entity, spawn, despawn, insert, remove, updates) ==
    [ entity |-> entity, spawn |-> spawn, despawn |-> despawn,
      insert |-> insert, remove |-> remove, updates |-> updates ]

EntityUpdates(entity, components) == [entity |-> entity, components |-> components]

(***************************************************************************)
(* ReplicationReceiver                                                     *)
(***************************************************************************)
ReceiverState == [ map |-> remote_entity_map, r2g |-> remote_entity_to_group,
                   world |-> world, events |-> events, panicked |-> panicked ]

\* a receiver with one channel for every group
recv_message_one_channel(m) ==
    /\ ~panicked
    /\ nrecv < MaxRecv
    /\ nrecv' = nrecv + 1
    /\ group_channels' =
           MapInsert(group_channels, 1,
               recv_message_channel(ChannelOrDefault(group_channels, 1), m))
    /\ last_call' = RecvOutcome(ChannelOrDefault(group_channels, 1), m)
    /\ UNCHANGED <<remote_entity_map, remote_entity_to_group, world, events, panicked,
                   returned, applied>>

\* ReplicationReceiver::recv_message
recv_message(m) ==
    /\ ~panicked
    /\ nrecv < MaxRecv
    /\ nrecv' = nrecv + 1
    /\ group_channels' =
           MapInsert(group_channels, m.group_id,
               recv_message_channel(ChannelOrDefault(group_channels, m.group_id), m))
    /\ last_call' = RecvOutcome(ChannelOrDefault(group_channels, m.group_id), m)
    /\ UNCHANGED <<remote_entity_map, remote_entity_to_group, world, events, panicked,
                   returned, applied>>

\* what GroupChannel::read_messages returns for every group, and the channels after it
ReadAll ==
    [g \in DOMAIN group_channels |-> channel_read_messages(group_channels[g])]

\* the groups are visited in the order the hash map iterates them
GroupOrders == {<<1, 2>>, <<2, 1>>}

RECURSIVE apply_groups(_, _, _, _)
apply_groups(st, read, order, i) ==
    IF i > Len(order) THEN st
    ELSE IF order[i] \notin DOMAIN read THEN apply_groups(st, read, order, i + 1)
    ELSE apply_groups(apply_messages(st, read[order[i]].res, 1, order[i]),
                      read, order, i + 1)

\* ReplicationReceiver::read_messages, and the receive pass applying what it returns
read_messages ==
    /\ ~panicked
    /\ \E read \in {ReadAll} :
          /\ group_channels' = [g \in DOMAIN read |-> read[g].channel]
          /\ returned' = [g \in {x \in DOMAIN read : read[x].res # <<>>} |-> read[g].res]
          /\ applied' = [g \in Groups |->
                            IF g \in DOMAIN read THEN applied[g] \o read[g].res
                            ELSE applied[g]]
          /\ \E order \in GroupOrders :
                LET st == apply_groups(ReceiverState, read, order, 1)
                IN  /\ remote_entity_map' = st.map
                    /\ remote_entity_to_group' = st.r2g
                    /\ world' = st.world
                    /\ events' = st.events
                    /\ panicked' = st.panicked
    /\ last_call' = "ReadMessages"
    /\ UNCHANGED <<delivered, nrecv, sender_vars, client_vars, server_vars, tick_vars, engine_vars>>

ReceiverInit ==
    /\ group_channels = EmptyMap
    /\ remote_entity_map = EmptyMap
    /\ remote_entity_to_group = EmptyMap
    /\ world = WorldDefault
    /\ events = <<>>
    /\ panicked = FALSE
    /\ returned = EmptyMap
    /\ last_call = "None"
    /\ applied = [g \in Groups |-> <<>>]
    /\ delivered = <<>>
    /\ nrecv = 0

\* the client right after ClientNetworkingPlugin::build, no frame run yet
ClientBuilt ==
    /\ state = "Disconnected"
    /\ next_state = "None"
    /\ net_state = "Disconnected"
    /\ io_state = "NoIo"
    /\ status_channel = "Empty"
    /\ transport_up = FALSE
    /\ handshake = 0
    /\ synced = FALSE
    /\ manager_id = 1
    /\ old_cursor = 0
    /\ marked = {}
    /\ net_events = <<>>
    /\ last_event = "None"
    /\ pc = "PreUpdate"
    /\ ran = {}
    /\ entered_initial = FALSE
    /\ last_recv = [ran |-> FALSE, update |-> "Ok", before |-> "Disconnected",
                    offered |-> <<>>, processed |-> 0, completed |-> TRUE]
    /\ last_send = [ran |-> FALSE, results |-> <<>>, sent |-> 0]
    /\ ncmd = 0
    /\ npkt = 0

ClientIdle == ClientBuilt /\ mode = "Separate"

SenderIdle ==
    /\ srv_tick = 0
    /\ srv_channel = [g \in Groups |-> [next |-> 0, last_action_tick |-> 0]]
    /\ net = {}


\* the engines before their first frame
PredStart ==
    [tick |-> 47, value |-> 0, history |-> (47 :> 0), inputs |-> <<>>,
     last |-> [op |-> "None"]]

PredIdle == pred = PredStart
InterpStart == [buffer |-> <<>>, render_tick |-> 100, shown |-> [kind |-> "None"]]

InterpIdle == interp = InterpStart

\* the entities of the host-server before the application touched them
HostEntities == {101, 102}

NoReplicate ==
    [present |-> FALSE, replication_target |-> {}, prediction_target |-> {},
     interpolation_target |-> {}]

HostEntityStart ==
    [replicate |-> NoReplicate, changed |-> FALSE, pre_predicted |-> "Absent",
     predicted |-> 0, interpolated |-> 0, inserted |-> {}]

HostIdle == host = [entity \in HostEntities |-> HostEntityStart]

EngineIdle == PredIdle /\ InterpIdle /\ HostIdle

(***************************************************************************)
(* ServerEvents (src/lightyear/src/server/events.rs): the events the       *)
(* server buffers per client in a frame, and into_iter_messages, which     *)
(* drains the messages of one type.  ConnectionEvents, the per-client      *)
(* buffer, keeps for each message type the messages received, each with    *)
(* the channel it came on, in the order push_message added them.           *)
(***************************************************************************)
MaxMsgs == 2
MaxClientEvents == 1

Clients == {1, 2}
MessageKinds == {"Message1", "Message2"}
ChannelKinds == {"Channel1", "Channel2"}

ConnectionEvents_new == [messages |-> [k \in MessageKinds |-> <<>>]]

push_message(ce, channel, kind, message) ==
    [ce EXCEPT !.messages[kind] = Append(@, [channel |-> channel, message |-> message])]

ConnectionEvents_is_empty(ce) == \A k \in MessageKinds : ce.messages[k] = <<>>

ConnectionEvents_has_messages(ce, kind) == ce.messages[kind] /= <<>>

\* removes the messages of the type and yields them, each with its channel
ConnectionEvents_into_iter_messages(ce, kind) ==
    [yielded |-> [i \in 1..Len(ce.messages[kind]) |->
                      <<ce.messages[kind][i].message, ce.messages[kind][i].channel>>],
     events |-> [ce EXCEPT !.messages[kind] = <<>>]]

ServerEvents_new ==
    [connections |-> <<>>, disconnections |-> <<>>, events |-> <<>>, empty |-> TRUE]

clear(se) == ServerEvents_new

push_connection(se, client_id) ==
    [se EXCEPT !.connections = Append(@, client_id), !.empty = FALSE]

\* a push_disconnection like push_connection, whose events.remove is commented out
push_disconnection_keeping_events(se, client_id) ==
    [se EXCEPT !.disconnections = Append(@, client_id), !.empty = FALSE]

push_disconnection(se, client_id) ==
    [se EXCEPT !.disconnections = Append(@, client_id),
               !.events = [c \in DOMAIN se.events \ {client_id} |-> se.events[c]],
               !.empty = FALSE]

push_events(se, client_id, ce) ==
    IF ~ConnectionEvents_is_empty(ce)
    THEN [se EXCEPT !.events = [c \in DOMAIN se.events \cup {client_id} |->
                                    IF c = client_id THEN ce ELSE se.events[c]],
                    !.empty = FALSE]
    ELSE se

has_messages(se, kind) ==
    \E c \in DOMAIN se.events : ConnectionEvents_has_messages(se.events[c], kind)

\* the iterations of a map: every order of its keys
IterOrders(map) ==
    { o \in [1..Cardinality(DOMAIN map) -> DOMAIN map] :
        \A i, j \in DOMAIN o : i /= j => o[i] /= o[j] }

\* the whole iterator, collected: the clients are visited in the map's order, each
\* client's messages of the type are removed and zipped with the client's id
into_iter_messages_keeping(se, kind, order) ==
    LET drained(c) == ConnectionEvents_into_iter_messages(se.events[c], kind)
        zip(c) == [i \in 1..Len(drained(c).yielded) |-> <<drained(c).yielded[i][1], c>>]
        flat[i \in 0..Len(order)] ==
            IF i = 0 THEN <<>> ELSE flat[i - 1] \o zip(order[i])
    IN  [yielded |-> flat[Len(order)], events |-> se]

into_iter_messages(se, kind, order) ==
    LET drained(c) == ConnectionEvents_into_iter_messages(se.events[c], kind)
        zip(c) == [i \in 1..Len(drained(c).yielded) |-> <<drained(c).yielded[i][1], c>>]
        flat[i \in 0..Len(order)] ==
            IF i = 0 THEN <<>> ELSE flat[i - 1] \o zip(order[i])
    IN  [yielded |-> flat[Len(order)],
         events |-> [se EXCEPT !.events = [c \in DOMAIN se.events |-> drained(c).events]]]

NoIter == [called |-> FALSE, kind |-> "None", yielded |-> <<>>]

TickIdle == generated = <<>>

ServerIdle ==
    /\ server_events = ServerEvents_new
    /\ iterated = NoIter

\* the messages a client can have sent in a frame
Received(kind) ==
    IF kind = "Message1"
    THEN { [channel |-> "Channel1", message |-> "hello"],
           [channel |-> "Channel2", message |-> "world"] }
    ELSE { [channel |-> "Channel1", message |-> "1"] }

RECURSIVE PushAll(_, _, _)
PushAll(ce, kind, msgs) ==
    IF msgs = <<>> THEN ce
    ELSE PushAll(push_message(ce, Head(msgs).channel, kind, Head(msgs).message),
                 kind, Tail(msgs))

AnyConnectionEvents ==
    { PushAll(PushAll(ConnectionEvents_new, "Message1", m1), "Message2", m2) :
        m1 \in UNION { [1..n -> Received("Message1")] : n \in 0..MaxMsgs },
        m2 \in UNION { [1..n -> Received("Message2")] : n \in 0..1 } }

OtherVarsUnchanged == UNCHANGED <<receiver_vars, sender_vars, client_vars, tick_vars, engine_vars>>

\* a client connects once in a frame, and disconnects once
PushConnection ==
    /\ Len(server_events.connections) < MaxClientEvents
    /\ \E c \in Clients :
          /\ \A i \in 1..Len(server_events.connections) : server_events.connections[i] # c
          /\ server_events' = push_connection(server_events, c)
    /\ iterated' = NoIter
    /\ OtherVarsUnchanged

PushDisconnection ==
    /\ Len(server_events.disconnections) < MaxClientEvents
    /\ \E c \in Clients :
          /\ \A i \in 1..Len(server_events.disconnections) :
                server_events.disconnections[i] # c
          /\ server_events' = push_disconnection(server_events, c)
    /\ iterated' = NoIter
    /\ OtherVarsUnchanged

PushEvents ==
    /\ \E c \in Clients, ce \in AnyConnectionEvents :
           server_events' = push_events(server_events, c, ce)
    /\ iterated' = NoIter
    /\ OtherVarsUnchanged

ClearEvents ==
    /\ server_events' = clear(server_events)
    /\ iterated' = NoIter
    /\ OtherVarsUnchanged

IterMessages ==
    \E kind \in MessageKinds, order \in IterOrders(server_events.events) :
        LET r == into_iter_messages(server_events, kind, order)
        IN  /\ server_events' = r.events
            /\ iterated' = [called |-> TRUE, kind |-> kind, yielded |-> r.yielded]
            /\ OtherVarsUnchanged

NextServerEvents ==
    PushConnection \/ PushDisconnection \/ PushEvents \/ ClearEvents \/ IterMessages

InitServerEvents == ReceiverInit /\ SenderIdle /\ ClientIdle /\ ServerIdle /\ TickIdle /\ EngineIdle

ServerEventsSpec == InitServerEvents /\ [][NextServerEvents]_vars

(***************************************************************************)
(* TickSpec: a tick counter that starts anywhere and is incremented, with  *)
(* wrapping; the ticks it takes within one window narrower than half the   *)
(* range are recorded in the order they are generated.                     *)
(***************************************************************************)
MaxTicks == 3

HalfRange == 32768

TickBases == {0, 1, 32767, 32768, 65530, 65535}
TickSteps == {1, 2, 6, 16383, 16384, 32760, 32767}

\* `tick += k`
increment_tick(tick, k) == Wrap(tick + k)

InitTick ==
    /\ ReceiverInit /\ SenderIdle /\ ClientIdle /\ ServerIdle /\ EngineIdle
    /\ generated \in { <<[tick |-> b, index |-> 0]>> : b \in TickBases }

GenerateTick ==
    /\ Len(generated) < MaxTicks
    /\ \E k \in TickSteps :
          LET last == generated[Len(generated)]
          IN  /\ last.index + k < HalfRange
              /\ generated' = Append(generated, [tick |-> increment_tick(last.tick, k),
                                                 index |-> last.index + k])
    /\ UNCHANGED <<receiver_vars, sender_vars, client_vars, server_vars, engine_vars>>

TickSpec == InitTick /\ [][GenerateTick]_vars

(***************************************************************************)
(* Prediction engine: a Predicted entity with one Full component.  Each    *)
(* tick the shared simulation adds the tick's input to the value and the   *)
(* result is written to the history; the input is kept in the input        *)
(* buffer.  A confirmed value for tick T that differs from history[T]      *)
(* triggers a rollback.                                                    *)
(***************************************************************************)
MaxPredicted == 4
MaxRollbackTicks == 3

PredInputs == {0, 1}
ConfirmedValues == {0, 2, 5}

simulate(value, input) == value + input

\* the ticks the history ring buffer and the input buffer still hold at `tick`
Kept(tick) == { t \in 47..tick : t > tick - MaxRollbackTicks }

\* one tick of the predicted simulation with the local input
predict_tick(p, input) ==
    LET tick == p.tick + 1
        value == simulate(p.value, input)
    IN  [tick |-> tick, value |-> value,
         history |-> [t \in Kept(tick) |-> IF t = tick THEN value ELSE p.history[t]],
         inputs |-> [t \in Kept(tick) \ {47} |-> IF t = tick THEN input ELSE p.inputs[t]],
         last |-> [op |-> "Predict"]]

\* resimulation of the ticks (T, t] from the value at T with the stored inputs
RECURSIVE resimulate(_, _, _, _)
resimulate(value, inputs, T, t) ==
    IF t <= T THEN value
    ELSE simulate(resimulate(value, inputs, T, t - 1), inputs[t])

\* a rollback that replays the input of tick T as well
rollback_replaying_T(p, T, confirmed) ==
    [p EXCEPT !.history = [t \in DOMAIN p.history |->
                              IF t < T THEN p.history[t]
                              ELSE resimulate(confirmed, p.inputs, T - 1, t)],
              !.value = resimulate(confirmed, p.inputs, T - 1, p.tick),
              !.last = [op |-> "Rollback", tick |-> T, confirmed |-> confirmed]]

\* rollback protocol, step 2: the value at T is set from Confirmed, the history
\* after T is cleared and rewritten by the resimulation of (T, current tick]
rollback(p, T, confirmed) ==
    [p EXCEPT !.history = [t \in DOMAIN p.history |->
                              IF t < T THEN p.history[t]
                              ELSE resimulate(confirmed, p.inputs, T, t)],
              !.value = resimulate(confirmed, p.inputs, T, p.tick),
              !.last = [op |-> "Rollback", tick |-> T, confirmed |-> confirmed]]

\* rollback protocol, step 1: compare the confirmed value with history[T]
confirm_update(p, T, confirmed) ==
    IF p.history[T] /= confirmed
    THEN rollback(p, T, confirmed)
    ELSE [p EXCEPT !.last = [op |-> "Match", tick |-> T, confirmed |-> confirmed]]

EngineFrame == UNCHANGED <<receiver_vars, sender_vars, client_vars, server_vars, tick_vars, host>>

PredictTick ==
    /\ pred.tick < 47 + MaxPredicted
    /\ \E input \in PredInputs : pred' = predict_tick(pred, input)
    /\ UNCHANGED interp
    /\ EngineFrame

\* Confirmed receives an update for a tick the history still holds
ConfirmUpdate ==
    /\ \E T \in DOMAIN pred.history \ {47}, confirmed \in ConfirmedValues :
           pred' = confirm_update(pred, T, confirmed)
    /\ UNCHANGED interp
    /\ EngineFrame

NextPrediction == PredictTick \/ ConfirmUpdate

InitEngine == ReceiverInit /\ SenderIdle /\ ClientIdle /\ ServerIdle /\ TickIdle /\ EngineIdle

PredictionSpec == InitEngine /\ [][NextPrediction]_vars

(***************************************************************************)
(* Interpolation engine: an Interpolated entity with one scalar component. *)
(* The buffer is a bounded deque of (tick, value) snapshots ordered by     *)
(* tick.  A rendered value is the fraction num / den.                      *)
(***************************************************************************)
MaxSnapshots == 3

SnapTicks == 100..104
RenderTicks == 100..105
SnapValues == {0, 10, 20}

\* a snapshot newer than every buffered one is pushed; a full deque drops its oldest
push_snapshot(buffer, tick, value) ==
    LET pushed == Append(buffer, [tick |-> tick, value |-> value])
    IN  IF Len(pushed) > MaxSnapshots THEN Tail(pushed) ELSE pushed

\* step 1: drop snapshots with tick < render_tick - 1
drop_old(buffer, render_tick) ==
    SelectSeq(buffer, LAMBDA snap : ~(snap.tick < render_tick - 1))

\* step 2: the first snapshot of the buffer for start (not the latest one at or before the tick)
find_start_earliest(buffer, render_tick) ==
    IF buffer /= <<>> /\ buffer[1].tick <= render_tick THEN 1 ELSE 0

\* step 2: index of the latest snapshot with tick <= render_tick, 0 if there is none
find_start(buffer, render_tick) ==
    LET before == { i \in DOMAIN buffer : buffer[i].tick <= render_tick }
    IN  IF before = {} THEN 0 ELSE CHOOSE i \in before : \A j \in before : j <= i

\* step 2: index of the earliest snapshot with tick > render_tick, 0 if there is none
find_end(buffer, render_tick) ==
    LET after == { i \in DOMAIN buffer : buffer[i].tick > render_tick }
    IN  IF after = {} THEN 0 ELSE CHOOSE i \in after : \A j \in after : i <= j

\* step 3: start + (end - start) * (render_tick - start.tick) / (end.tick - start.tick)
lerp(start, end, render_tick) ==
    [num |-> start.value * (end.tick - start.tick)
                 + (end.value - start.value) * (render_tick - start.tick),
     den |-> end.tick - start.tick]

\* steps 2 to 4 on the buffer left by step 1
interpolate(buffer, render_tick) ==
    LET s == find_start(buffer, render_tick)
        e == find_end(buffer, render_tick)
    IN  IF s /= 0 /\ e /= 0
        THEN [kind |-> "Lerp", value |-> lerp(buffer[s], buffer[e], render_tick)]
        ELSE IF s /= 0
        THEN [kind |-> "Hold", value |-> [num |-> buffer[s].value, den |-> 1]]
        ELSE [kind |-> "NotVisible"]

PushSnapshot ==
    /\ \E tick \in SnapTicks, value \in SnapValues :
          /\ \A i \in DOMAIN interp.buffer : interp.buffer[i].tick < tick
          /\ interp' = [interp EXCEPT !.buffer = push_snapshot(@, tick, value),
                                      !.shown = [kind |-> "None"]]
    /\ UNCHANGED pred
    /\ EngineFrame

\* a frame at a render tick that never goes back
RenderFrame ==
    /\ \E render_tick \in RenderTicks :
          /\ interp.render_tick <= render_tick
          /\ LET kept == drop_old(interp.buffer, render_tick)
             IN  interp' = [buffer |-> kept, render_tick |-> render_tick,
                            shown |-> interpolate(kept, render_tick)]
    /\ UNCHANGED pred
    /\ EngineFrame

NextInterpolation == PushSnapshot \/ RenderFrame

InterpolationSpec == InitEngine /\ [][NextInterpolation]_vars

(***************************************************************************)
(* Spec: the receiver under any message the network may hand it.  The      *)
(* ticks lie in one half-range window around the 65535 -> 0 wrap.          *)
(***************************************************************************)
SeqVals == {0, 1, 2, 65535}
TickVals == {65530, 0, 5}

AnyMessages ==
    { ActionsMessage(g, s, t, <<>>) : g \in Groups, s \in SeqVals, t \in TickVals }
    \cup { UpdatesMessage(g, l, t, <<>>) : g \in Groups, l \in TickVals, t \in TickVals }

Init == ReceiverInit /\ SenderIdle /\ ClientIdle /\ ServerIdle /\ TickIdle /\ EngineIdle

Recv ==
    \E m \in AnyMessages : recv_message(m) /\ UNCHANGED <<delivered, sender_vars, client_vars, server_vars, tick_vars, engine_vars>>

Next == Recv \/ read_messages

Spec == Init /\ [][Next]_vars

(***************************************************************************)
(* SenderSpec: the receiver fed by a sender that follows the replication   *)
(* protocol.  On a send tick a group's channel emits either an action      *)
(* message, with the next sequence id, or (once it has sent an action) an  *)
(* update message stamped with the tick of its last action.  The network   *)
(* may deliver an emitted message any number of times, in any order, or    *)
(* never.  The server may have been running for any time when the client   *)
(* joins, so its tick starts anywhere in the 16-bit range.                 *)
(***************************************************************************)
StartTicks == {0, 65534}

SenderInit ==
    /\ srv_tick \in StartTicks
    /\ srv_channel = [g \in Groups |-> [next |-> 0, last_action_tick |-> 0]]
    /\ net = {}

SendActions(g) ==
    /\ Cardinality(net) < MaxSend
    /\ srv_tick' = Wrap(srv_tick + 1)
    /\ net' = net \cup {ActionsMessage(g, srv_channel[g].next, srv_tick', <<>>)}
    /\ srv_channel' = [srv_channel EXCEPT ![g] =
                          [next |-> Wrap(@.next + 1), last_action_tick |-> srv_tick']]
    /\ UNCHANGED <<receiver_vars, client_vars, server_vars, tick_vars, engine_vars>>

SendUpdates(g) ==
    /\ Cardinality(net) < MaxSend
    /\ srv_channel[g].next > 0
    /\ srv_tick' = Wrap(srv_tick + 1)
    /\ net' = net \cup {UpdatesMessage(g, srv_channel[g].last_action_tick, srv_tick', <<>>)}
    /\ UNCHANGED <<srv_channel, receiver_vars, client_vars, server_vars, tick_vars, engine_vars>>

Send == \E g \in Groups : SendActions(g) \/ SendUpdates(g)

Deliver ==
    \E m \in net : recv_message(m) /\ UNCHANGED <<delivered, sender_vars, client_vars, server_vars, tick_vars, engine_vars>>

InitSender == ReceiverInit /\ SenderInit /\ ClientIdle /\ ServerIdle /\ TickIdle /\ EngineIdle

NextSender == Send \/ Deliver \/ read_messages

SenderSpec == InitSender /\ [][NextSender]_vars

(***************************************************************************)
(* ScenarioSpec: one entity of group 1 is spawned at tick 10 (sequence id  *)
(* 0), updated at tick 11 and despawned at tick 12 (sequence id 1); the    *)
(* messages reach the receiver in any order, any number of times.  Across  *)
(* the tick wrap, one entity of group 2 is spawned at tick 65530 (sequence *)
(* id 0) and updated at tick 5.                                            *)
(***************************************************************************)
E == 101

SpawnE ==
    ActionsMessage(1, 0, 10,
        <<EntityActions(E, TRUE, FALSE, <<[kind |-> "Component1", val |-> 1]>>, <<>>, <<>>)>>)

UpdateE(last_action_tick) ==
    UpdatesMessage(1, last_action_tick, 11,
        <<EntityUpdates(E, <<[kind |-> "Component1", val |-> 2]>>)>>)

DespawnE ==
    ActionsMessage(1, 1, 12, <<EntityActions(E, FALSE, TRUE, <<>>, <<>>, <<>>)>>)

W == 102

SpawnW ==
    ActionsMessage(2, 0, 65530,
        <<EntityActions(W, TRUE, FALSE, <<[kind |-> "Component1", val |-> 1]>>, <<>>, <<>>)>>)

UpdateW ==
    UpdatesMessage(2, 65530, 5,
        <<EntityUpdates(W, <<[kind |-> "Component1", val |-> 2]>>)>>)

ScenarioMessages == {SpawnE, UpdateE(0), UpdateE(10), DespawnE, SpawnW, UpdateW}

DeliverScenario ==
    \E m \in ScenarioMessages :
        /\ recv_message(m)
        /\ delivered' = Append(delivered, m)
        /\ UNCHANGED <<sender_vars, client_vars, server_vars, tick_vars, engine_vars>>

NextScenario == DeliverScenario \/ read_messages

ScenarioSpec == Init /\ [][NextScenario]_vars

(***************************************************************************)
(* ApplySpec: apply_world on its own.  The receive pass hands apply_world  *)
(* one replication message at a time, with the ConnectionEvents of the     *)
(* pass; here each call gets an empty one.  The messages are about two     *)
(* remote entities, each of which may be spawned (alone or with a          *)
(* component that refers to the other entity), despawned, spawned and      *)
(* despawned at once, or modified; applied holds the message of the last   *)
(* call, under its group.                                                  *)
(***************************************************************************)
Other(e) == IF e = E THEN W ELSE E

\* a Component4, whose Entity field is the remote entity o
Ref(o) == [kind |-> "Component4", val |-> o]

\* a Component1, which holds no Entity
Val(v) == [kind |-> "Component1", val |-> v]

SpawnRef(e) == EntityActions(e, TRUE, FALSE, <<Ref(Other(e))>>, <<>>, <<>>)
SpawnPlain(e) == EntityActions(e, TRUE, FALSE, <<>>, <<>>, <<>>)
Despawn(e) == EntityActions(e, FALSE, TRUE, <<>>, <<>>, <<>>)
SpawnDespawn(e) == EntityActions(e, TRUE, TRUE, <<>>, <<>>, <<>>)
Modify(e) ==
    EntityActions(e, FALSE, FALSE, <<Val(1)>>, <<"Component4">>, <<Ref(Other(e))>>)

ApplyEntries(e) == {SpawnRef(e), SpawnPlain(e), Despawn(e), SpawnDespawn(e), Modify(e)}

ApplyUpdates(e) == {EntityUpdates(e, <<Ref(Other(e))>>), EntityUpdates(e, <<Val(2)>>)}

\* the bodies of a message: one entry, or one entry for each entity in either order
Bodies(entries(_)) ==
    {<<a>> : a \in entries(E) \cup entries(W)}
    \cup {<<a, b>> : a \in entries(E), b \in entries(W)}
    \cup {<<b, a>> : a \in entries(E), b \in entries(W)}

ApplyMessages(g) ==
    {ActionsMessage(g, 0, 1, body) : body \in Bodies(ApplyEntries)}
    \cup {UpdatesMessage(g, 0, 1, body) : body \in Bodies(ApplyUpdates)}

\* one call of ReplicationReceiver::apply_world on one of the given messages
ApplyWorldWith(messages) ==
    /\ ~panicked
    /\ nrecv < MaxRecv
    /\ nrecv' = nrecv + 1
    /\ \E m \in messages :
          LET g == m.group_id
              st == apply_world([ReceiverState EXCEPT !.events = <<>>], m, g)
          IN  /\ remote_entity_map' = st.map
              /\ remote_entity_to_group' = st.r2g
              /\ world' = st.world
              /\ events' = st.events
              /\ panicked' = st.panicked
              /\ applied' = [h \in Groups |-> IF h = g THEN <<m>> ELSE <<>>]
    /\ last_call' = "ApplyWorld"
    /\ UNCHANGED <<group_channels, returned, delivered, sender_vars, client_vars, server_vars, tick_vars, engine_vars>>

ApplyWorld == ApplyWorldWith(UNION {ApplyMessages(g) : g \in Groups})

ApplySpec == Init /\ [][ApplyWorld]_vars

(***************************************************************************)
(* EntrySpec: apply_world on action messages whose entries carry several   *)
(* kinds of action at once: a despawn that also carries components, and an *)
(* entry that inserts and removes the same kind.                           *)
(***************************************************************************)
DespawnAll(e) ==
    EntityActions(e, FALSE, TRUE, <<Val(1)>>, <<"Component1">>, <<Val(2)>>)

InsertRemove(e) ==
    EntityActions(e, FALSE, FALSE, <<Val(1), Ref(Other(e))>>, <<"Component1">>, <<>>)

EntryEntries(e) == {SpawnPlain(e), DespawnAll(e), Modify(e), InsertRemove(e)}

EntryMessages == {ActionsMessage(g, 0, 1, body) : g \in Groups, body \in Bodies(EntryEntries)}

ApplyEntryMessage == ApplyWorldWith(EntryMessages)

EntrySpec == Init /\ [][ApplyEntryMessage]_vars

(***************************************************************************)
(* GroupSpec: a replication group with two entities.  Group 1 spawns E and *)
(* W at tick 10 (sequence id 0), updates both at tick 11, modifies E at    *)
(* tick 12 (sequence id 1) and despawns W at tick 13 (sequence id 2);      *)
(* group 2 spawns F at tick 20.  The messages reach the receiver in any    *)
(* order, any number of times.                                             *)
(***************************************************************************)
F == 103

SpawnBoth == ActionsMessage(1, 0, 10, <<SpawnPlain(E), SpawnRef(W)>>)

UpdateBoth ==
    UpdatesMessage(1, 10, 11, <<EntityUpdates(E, <<Val(2)>>), EntityUpdates(W, <<Val(2)>>)>>)

ModifyE == ActionsMessage(1, 1, 12, <<Modify(E)>>)

DespawnW == ActionsMessage(1, 2, 13, <<Despawn(W)>>)

SpawnF == ActionsMessage(2, 0, 20, <<SpawnPlain(F)>>)

GroupMessages == {SpawnBoth, UpdateBoth, ModifyE, DespawnW, SpawnF}

DeliverGroup ==
    \E m \in GroupMessages :
        /\ recv_message(m)
        /\ delivered' = Append(delivered, m)
        /\ UNCHANGED <<sender_vars, client_vars, server_vars, tick_vars, engine_vars>>

NextGroup == DeliverGroup \/ read_messages

GroupSpec == Init /\ [][NextGroup]_vars

(***************************************************************************)
(* LiveSpec: the action messages 0..MaxSeqId of every group are handed to  *)
(* recv_message in any order, any number of times; the receive system      *)
(* runs in every frame, so read_messages is taken again and again.         *)
(***************************************************************************)
MaxSeqId == 1

LiveIds == 0..MaxSeqId

LiveMessage(g, s) == ActionsMessage(g, s, 10 + s, <<>>)

DeliverLive ==
    \E g \in Groups, s \in LiveIds :
        /\ recv_message(LiveMessage(g, s))
        /\ delivered' = Append(delivered, LiveMessage(g, s))
        /\ UNCHANGED <<sender_vars, client_vars, server_vars, tick_vars, engine_vars>>

NextLive == DeliverLive \/ read_messages

LiveSpec == Init /\ [][NextLive]_vars /\ WF_vars(read_messages)

\* Option<Tick>
None == [some |-> FALSE, tick |-> 0]
Some(tick) == [some |-> TRUE, tick |-> tick]

\* RemoteEntityMap::get_remote: the remote entity a local entity stands for
has_remote(local) == \E r \in DOMAIN remote_entity_map : remote_entity_map[r] = local
get_remote(local) == CHOOSE r \in DOMAIN remote_entity_map : remote_entity_map[r] = local

\* ReplicationReceiver::channel_by_remote, as the tick of the channel
channel_by_remote(remote_entity) ==
    IF remote_entity \in DOMAIN remote_entity_to_group
       /\ remote_entity_to_group[remote_entity] \in DOMAIN group_channels
    THEN Some(group_channels[remote_entity_to_group[remote_entity]].latest_tick)
    ELSE None

\* a get_confirmed_tick that takes the channel of group 1 for every entity
get_confirmed_tick_one_channel(confirmed_entity) ==
    IF has_remote(confirmed_entity) /\ 1 \in DOMAIN group_channels
    THEN Some(group_channels[1].latest_tick)
    ELSE None

\* ReplicationReceiver::get_confirmed_tick, through channel_by_local
get_confirmed_tick(confirmed_entity) ==
    IF has_remote(confirmed_entity)
    THEN channel_by_remote(get_remote(confirmed_entity))
    ELSE None

(***************************************************************************)
(* The client's connection state machine (client/networking.rs).  A frame  *)
(* runs PreUpdate (the systems receive and handle_connection_failure, in   *)
(* either order), then StateTransition, then Update (where the application *)
(* may issue a command), then PostUpdate (sync_update and send).  The      *)
(* client's resources are threaded through the systems as a record c.      *)
(***************************************************************************)
MaxCmd == 2         \* commands the application issues in one behaviour
MaxPackets == 2     \* packets the transport hands to receive in one behaviour

NetworkingStates == {"Disconnected", "Connecting", "Connected"}
Modes == {"Separate", "HostServer"}

\* the client id of the configured connection, netcode.id()
ClientId == 7

\* round trips of the connection handshake (request/challenge, response/accept)
HandshakeSteps == 2

ConnectEvent == [type |-> "ConnectEvent", client_id |-> ClientId]
DisconnectEvent == [type |-> "DisconnectEvent", client_id |-> 0]
ServerConnectEvent == [type |-> "server::ConnectEvent", client_id |-> ClientId]
ServerDisconnectEvent == [type |-> "server::DisconnectEvent", client_id |-> ClientId]

Client ==
    [ state |-> state, next_state |-> next_state, net_state |-> net_state,
      io_state |-> io_state, status_channel |-> status_channel,
      transport_up |-> transport_up, handshake |-> handshake, synced |-> synced,
      mode |-> mode, manager_id |-> manager_id, old_cursor |-> old_cursor,
      marked |-> marked, net_events |-> net_events,
      group_channels |-> group_channels, returned |-> returned,
      map |-> remote_entity_map, r2g |-> remote_entity_to_group,
      world |-> world, events |-> events, panicked |-> panicked ]

\* run condition is_connected
is_connected(c) == c.net_state = "Connected" /\ c.io_state = "Connected"

\* run condition is_disconnected
is_disconnected(c) ==
    c.net_state = "Disconnected" \/ c.io_state \in {"NoIo", "Disconnected"}

is_host_server_condition(c) == c.mode = "HostServer"

\* run_if of the Receive, EmitEvents, SyncSet and Send system sets
NetworkingRuns(c) == ~(is_host_server_condition(c) \/ is_disconnected(c))

\* the largest actions_pending_recv_message_id among the groups of a receiver
RECURSIVE LargestCursor(_)
LargestCursor(channels) ==
    IF DOMAIN channels = {} THEN 0
    ELSE LET g == CHOOSE x \in DOMAIN channels : TRUE
             rest == LargestCursor(MapRemove(channels, g))
             mine == channels[g].actions_pending_recv_message_id
         IN  IF mine > rest THEN mine ELSE rest

\* ConnectionManager::new: a new ReplicationReceiver, sync manager not synced
NewConnectionManager(c) ==
    [c EXCEPT !.old_cursor = LargestCursor(c.group_channels),
              !.group_channels = EmptyMap,
              !.map = EmptyMap,
              !.r2g = EmptyMap,
              !.events = <<>>,
              !.returned = EmptyMap,
              !.synced = FALSE,
              !.manager_id = @ + 1]

\* NetConfig::build_client: a client connection that has not connected, without io
NewClientConnection(c) ==
    [c EXCEPT !.net_state = "Disconnected",
              !.io_state = "NoIo",
              !.status_channel = "Empty",
              !.transport_up = FALSE,
              !.handshake = 0]

\* a rebuild that keeps the ConnectionManager of the session before
rebuild_keeps_manager(c) == NewClientConnection(c)

rebuild_client_connection(c) == NewClientConnection(NewConnectionManager(c))

\* what ClientConnection::connect does: it fails, or it builds the io, whose
\* transport is connected at once (udp, channels) or connects in the background
ConnectOutcomes == {"Err", "IoConnecting", "IoConnected"}

client_connect(c, outcome) ==
    IF c.mode = "HostServer" THEN [c EXCEPT !.net_state = "Connected"]
    ELSE IF outcome = "Err" THEN c
    ELSE [c EXCEPT !.net_state = "Connecting",
                   !.io_state = IF outcome = "IoConnected" THEN "Connected" ELSE "Connecting",
                   !.transport_up = (outcome = "IoConnected"),
                   !.status_channel = "Empty",
                   !.handshake = 0]

\* ClientConnection::disconnect: the connection is closed and the io's close function runs
client_disconnect(c) ==
    [c EXCEPT !.net_state = "Disconnected",
              !.io_state = IF @ = "NoIo" THEN "NoIo" ELSE "Disconnected",
              !.transport_up = FALSE,
              !.handshake = 0]

\* the system connect, run by OnEnter(Connecting)
connect(c, outcome) ==
    LET c1 == client_connect(rebuild_client_connection(c), outcome)
    IN  IF c1.net_state = "Connected" /\ c1.mode = "HostServer"
        THEN [c1 EXCEPT !.next_state = "Connected"]
        ELSE c1

\* an on_connect that tells the client only
on_connect_client_only(c) ==
    [c EXCEPT !.net_events = Append(@, ConnectEvent)]

\* the system on_connect, run by OnEnter(Connected)
on_connect(c) ==
    [c EXCEPT !.net_events =
        IF c.mode = "HostServer"
        THEN @ \o <<ConnectEvent, ServerConnectEvent>>
        ELSE Append(@, ConnectEvent)]

\* an on_disconnect whose query finds no entity
despawn_received_skipped(c) ==
    c

\* despawn_recursive of every entity of the query
despawn_received(c) ==
    [c EXCEPT !.world.comps = [e \in DOMAIN @ \ c.marked |-> @[e]],
              !.marked = {}]

\* an on_disconnect that leaves the sync manager as it is
on_disconnect_keeps_sync(c) ==
    LET c1 == client_disconnect(despawn_received(c))
    IN  [c1 EXCEPT !.net_events =
            IF c.mode = "HostServer"
            THEN @ \o <<DisconnectEvent, ServerDisconnectEvent>>
            ELSE Append(@, DisconnectEvent)]

\* the system on_disconnect, run by OnEnter(Disconnected)
on_disconnect(c) ==
    LET c1 == client_disconnect([despawn_received(c) EXCEPT !.synced = FALSE])
    IN  [c1 EXCEPT !.net_events =
            IF c.mode = "HostServer"
            THEN @ \o <<DisconnectEvent, ServerDisconnectEvent>>
            ELSE Append(@, DisconnectEvent)]

\* bevy's run_enter_schedule: OnEnter of the initial state, in the first frame
run_enter_schedule(c, first) == IF first THEN on_disconnect(c) ELSE c

OnEnter(c, entered, outcome) ==
    CASE entered = "Connecting" -> connect(c, outcome)
      [] entered = "Connected" -> on_connect(c)
      [] entered = "Disconnected" -> on_disconnect(c)

\* bevy's apply_state_transition: the state asked for is taken, and entered when
\* it differs from the current state
apply_state_transition(c, outcome) ==
    IF c.next_state = "None" THEN c
    ELSE LET entered == c.next_state
             c1 == [c EXCEPT !.next_state = "None"]
         IN  IF c1.state = entered THEN c1
             ELSE OnEnter([c1 EXCEPT !.state = entered], entered, outcome)

\* the system handle_connection_failure: first the status of the io
poll_io_status(c) ==
    IF c.io_state # "Connecting" THEN [c |-> c, failed |-> FALSE]
    ELSE CASE c.status_channel = "Error" ->
                [c |-> [c EXCEPT !.io_state = "Disconnected", !.status_channel = "Closed"],
                 failed |-> TRUE]
           [] c.status_channel = "OkNone" ->
                [c |-> [c EXCEPT !.io_state = "Connected", !.status_channel = "Empty"],
                 failed |-> FALSE]
           [] c.status_channel = "Empty" -> [c |-> c, failed |-> FALSE]
           [] c.status_channel = "Closed" -> [c |-> c, failed |-> TRUE]

\* a handle_connection_failure that ignores the state of the client connection
handle_connection_failure_io_only(c) ==
    LET io == poll_io_status(c)
    IN  IF io.failed THEN [io.c EXCEPT !.next_state = "Disconnected"] ELSE io.c

handle_connection_failure(c) ==
    LET io == poll_io_status(c)
        c1 == IF io.failed THEN [io.c EXCEPT !.next_state = "Disconnected"] ELSE io.c
    IN  IF c1.net_state = "Disconnected"
        THEN [c1 EXCEPT !.next_state = "Disconnected"]
        ELSE c1

\* what ClientConnection::try_update may do to the connection: nothing, one more
\* step of the handshake (only over a transport that is up), or the loss of the
\* connection (timeout, denial, close by the server); it returns Ok or Err
UpdateOutcomes == [result : {"Ok", "Err"}, event : {"None", "Progress", "Drop"}]

try_update(c, u) ==
    IF u.event = "Progress" /\ c.net_state = "Connecting" /\ c.transport_up
    THEN [c EXCEPT !.handshake = @ + 1,
                   !.net_state = IF c.handshake + 1 >= HandshakeSteps THEN "Connected" ELSE @]
    ELSE IF u.event = "Drop" /\ c.net_state # "Disconnected"
    THEN [c EXCEPT !.net_state = "Disconnected"]
    ELSE c

\* receive: the two state checks after try_update
receive_state(c) ==
    LET c1 == IF c.net_state = "Connected" /\ c.state # "Connected"
              THEN [c EXCEPT !.next_state = "Connected"]
              ELSE c
    IN  IF c1.net_state = "Disconnected" /\ c1.state # "Disconnected"
        THEN [c1 EXCEPT !.next_state = "Disconnected"]
        ELSE c1

\* packets of the session: the spawn of E (sequence id 0), the next action message
\* of the group (sequence id 1), and a packet that does not decode
Malformed ==
    [ group_id |-> 0, kind |-> "Malformed", sequence_id |-> 0,
      last_action_tick |-> 0, remote_tick |-> 0, body |-> <<>> ]

ClientSpawn ==
    ActionsMessage(1, 0, 1, <<EntityActions(E, TRUE, FALSE, <<>>, <<>>, <<>>)>>)

ClientNext == ActionsMessage(1, 1, 2, <<>>)

Packets == {Malformed, ClientSpawn, ClientNext}

PacketSeqs(n) ==
    {<<>>} \cup (IF n >= 1 THEN {<<p>> : p \in Packets} ELSE {})
           \cup (IF n >= 2 THEN {<<p, q>> : p \in Packets, q \in Packets} ELSE {})

\* ClientConnection::recv hands out payload packets of a connected connection only
Incoming(c, n) == IF c.net_state = "Connected" THEN PacketSeqs(n) ELSE {<<>>}

\* ConnectionManager::recv_packet: a replication message reaches the receiver's
\* recv_message; a packet that does not decode is dropped inside or reported as Err
recv_packet(c, packet, bad) ==
    IF packet.kind = "Malformed"
    THEN [c |-> c, ok |-> (bad # "Err")]
    ELSE [c |-> [c EXCEPT !.group_channels =
                    MapInsert(@, packet.group_id,
                        recv_message_channel(ChannelOrDefault(@, packet.group_id), packet))],
          ok |-> TRUE]

\* receive: while let Some(packet) = netclient.recv() { recv_packet(..).unwrap() }
RECURSIVE recv_packets(_, _, _, _)
recv_packets(c, pkts, i, bad) ==
    IF i > Len(pkts) THEN [c |-> c, processed |-> i - 1, completed |-> TRUE]
    ELSE LET r == recv_packet(c, pkts[i], bad)
         IN  IF r.ok THEN recv_packets(r.c, pkts, i + 1, bad)
             ELSE [c |-> [c EXCEPT !.panicked = TRUE],
                   processed |-> i - 1, completed |-> FALSE]

ReadAllOf(channels) ==
    [g \in DOMAIN channels |-> channel_read_messages(channels[g])]

\* ConnectionManager::receive: read_messages of the receiver, apply_world of each
connection_receive(c, order) ==
    LET read == ReadAllOf(c.group_channels)
    IN  apply_groups(
            [c EXCEPT !.group_channels = [g \in DOMAIN read |-> read[g].channel],
                      !.returned = [g \in {x \in DOMAIN read : read[x].res # <<>>}
                                      |-> read[g].res]],
            read, order, 1)

\* the replication, prediction and interpolation plugins put their marker
\* (Replicated, Predicted, Interpolated) on the entities received in the frame
mark_received(c, tag) ==
    IF tag THEN [c EXCEPT !.marked = Alive(c.world)] ELSE c

\* a packet that does not decode is dropped by recv_packet or reported as Err
DecodeOutcomes(pkts) ==
    IF \E i \in 1..Len(pkts) : pkts[i].kind = "Malformed" THEN {"Drop", "Err"} ELSE {"Drop"}

\* the session has one replication group, so the order of the groups is fixed
ClientGroupOrders == {<<1, 2>>}

\* markers are put on entities that do not carry one yet
MarkerChoices(c, pkts) ==
    IF pkts # <<>> \/ Alive(c.world) # c.marked THEN BOOLEAN ELSE {FALSE}

\* the system receive
receive(c, u, pkts, bad, order, tag) ==
    LET c1 == receive_state(try_update(c, u))
        r == recv_packets(c1, pkts, 1, bad)
    IN  IF ~r.completed THEN r.c
        ELSE mark_received(connection_receive(r.c, order), tag)

\* a send loop that gives up at the first packet the transport refuses
RECURSIVE send_until_error(_, _)
send_until_error(results, i) ==
    IF i > Len(results) THEN 0
    ELSE IF results[i] = "Err" THEN 1
    ELSE 1 + send_until_error(results, i + 1)

\* send: for packet_byte in packet_bytes { let _ = netcode.send(..).map_err(..) },
\* the number of packets handed to the transport
RECURSIVE send_packet_bytes(_, _)
send_packet_bytes(results, i) ==
    IF i > Len(results) THEN 0 ELSE 1 + send_packet_bytes(results, i + 1)

\* the results of netcode.send for the packets of a frame: none, or two packets
SendResults == {<<>>} \cup {<<a, b>> : a \in {"Ok", "Err"}, b \in {"Ok", "Err"}}

\* the system send: send_packets(..).unwrap(), then the loop over its packets
send(c, packets_ok, results) ==
    IF packets_ok
    THEN [c |-> c, sent |-> send_packet_bytes(results, 1)]
    ELSE [c |-> [c EXCEPT !.panicked = TRUE], sent |-> 0]

\* the system sync_update: the sync manager may find the client synced
sync_update(c, sync) ==
    [c EXCEPT !.synced = @ \/ (sync /\ c.net_state = "Connected")]

\* the events of a frame are gone when the frame is over
EndFrame(c) == [c EXCEPT !.net_events = <<>>]

\* the client events among evs, in order
ClientEvents(evs) ==
    SelectSeq(evs, LAMBDA ev : ev.type \in {"ConnectEvent", "DisconnectEvent"})

\* the events that c has sent and the client of the current state has not
SentBy(c) == SubSeq(c.net_events, Len(net_events) + 1, Len(c.net_events))

SetClient(c) ==
    /\ state' = c.state
    /\ next_state' = c.next_state
    /\ net_state' = c.net_state
    /\ io_state' = c.io_state
    /\ status_channel' = c.status_channel
    /\ transport_up' = c.transport_up
    /\ handshake' = c.handshake
    /\ synced' = c.synced
    /\ mode' = c.mode
    /\ manager_id' = c.manager_id
    /\ old_cursor' = c.old_cursor
    /\ marked' = c.marked
    /\ net_events' = c.net_events
    /\ last_event' = IF ClientEvents(SentBy(c)) = <<>> THEN last_event
                     ELSE ClientEvents(SentBy(c))[Len(ClientEvents(SentBy(c)))].type
    /\ group_channels' = c.group_channels
    /\ returned' = c.returned
    /\ remote_entity_map' = c.map
    /\ remote_entity_to_group' = c.r2g
    /\ world' = c.world
    /\ events' = c.events
    /\ panicked' = c.panicked
    /\ UNCHANGED <<last_call, applied, delivered, nrecv, sender_vars, server_vars, tick_vars, engine_vars>>

NoRecv == [ran |-> FALSE, update |-> "Ok", before |-> "Disconnected",
           offered |-> <<>>, processed |-> 0, completed |-> TRUE]
NoSend == [ran |-> FALSE, results |-> <<>>, sent |-> 0]

\* PreUpdate: receive, when its system set runs
ReceiveSystem ==
    /\ ~panicked
    /\ pc = "PreUpdate"
    /\ "receive" \notin ran
    /\ ran' = ran \cup {"receive"}
    /\ IF NetworkingRuns(Client)
       THEN \E u \in UpdateOutcomes :
            \E pkts \in Incoming(try_update(Client, u), MaxPackets - npkt) :
            \E bad \in DecodeOutcomes(pkts), order \in ClientGroupOrders :
            \E tag \in MarkerChoices(Client, pkts) :
               LET r == recv_packets(receive_state(try_update(Client, u)), pkts, 1, bad)
               IN  /\ SetClient(receive(Client, u, pkts, bad, order, tag))
                   /\ npkt' = npkt + Len(pkts)
                   /\ last_recv' = [ran |-> TRUE, update |-> u.result,
                                    before |-> try_update(Client, u).net_state,
                                    offered |-> pkts, processed |-> r.processed,
                                    completed |-> r.completed]
       ELSE /\ SetClient(Client)
            /\ last_recv' = NoRecv
            /\ UNCHANGED npkt
    /\ last_send' = NoSend
    /\ UNCHANGED <<pc, entered_initial, ncmd>>

\* PreUpdate: handle_connection_failure, run_if in_state(Connecting)
HandleConnectionFailureSystem ==
    /\ ~panicked
    /\ pc = "PreUpdate"
    /\ "hcf" \notin ran
    /\ ran' = ran \cup {"hcf"}
    /\ IF state = "Connecting"
       THEN SetClient(handle_connection_failure(Client))
       ELSE SetClient(Client)
    /\ last_send' = NoSend
    /\ UNCHANGED <<pc, entered_initial, last_recv, ncmd, npkt>>

\* the StateTransition schedule
StateTransition ==
    /\ ~panicked
    /\ pc = "PreUpdate"
    /\ ran = {"receive", "hcf"}
    /\ \E outcome \in ConnectOutcomes :
          SetClient(apply_state_transition(
                        run_enter_schedule(Client, ~entered_initial), outcome))
    /\ entered_initial' = TRUE
    /\ pc' = "Update"
    /\ last_recv' = NoRecv
    /\ UNCHANGED <<ran, last_send, ncmd, npkt>>

\* Update: the application issues ClientCommands::connect_client
connect_client ==
    /\ ~panicked
    /\ pc = "Update"
    /\ ncmd < MaxCmd
    /\ ncmd' = ncmd + 1
    /\ SetClient([Client EXCEPT !.next_state = "Connecting"])
    /\ pc' = "PostUpdate"
    /\ UNCHANGED <<ran, entered_initial, last_recv, last_send, npkt>>

\* Update: the application issues ClientCommands::disconnect_client
disconnect_client ==
    /\ ~panicked
    /\ pc = "Update"
    /\ ncmd < MaxCmd
    /\ ncmd' = ncmd + 1
    /\ SetClient([Client EXCEPT !.next_state = "Disconnected"])
    /\ pc' = "PostUpdate"
    /\ UNCHANGED <<ran, entered_initial, last_recv, last_send, npkt>>

\* Update: the application calls ClientConnection::connect itself (BevyStepper::init)
DirectConnect ==
    /\ ~panicked
    /\ pc = "Update"
    /\ ncmd < MaxCmd
    /\ net_state = "Disconnected"
    /\ ncmd' = ncmd + 1
    /\ \E outcome \in ConnectOutcomes : SetClient(client_connect(Client, outcome))
    /\ pc' = "PostUpdate"
    /\ UNCHANGED <<ran, entered_initial, last_recv, last_send, npkt>>

\* Update: the application issues no command in this frame
NoCommand ==
    /\ ~panicked
    /\ pc = "Update"
    /\ SetClient(Client)
    /\ pc' = "PostUpdate"
    /\ UNCHANGED <<ran, entered_initial, last_recv, last_send, ncmd, npkt>>

\* PostUpdate: sync_update and, when the client is ready to send, send
PostUpdate ==
    /\ ~panicked
    /\ pc = "PostUpdate"
    /\ IF NetworkingRuns(Client)
       THEN \E sync \in BOOLEAN, ready \in BOOLEAN, packets_ok \in BOOLEAN :
            \E results \in SendResults :
               LET c1 == sync_update(Client, sync)
                   s == send(c1, packets_ok, results)
               IN  IF ready
                   THEN /\ SetClient(EndFrame(s.c))
                        /\ last_send' = [ran |-> TRUE,
                                         results |-> IF packets_ok THEN results ELSE <<>>,
                                         sent |-> s.sent]
                   ELSE /\ SetClient(EndFrame(c1))
                        /\ last_send' = NoSend
       ELSE /\ SetClient(EndFrame(Client))
            /\ last_send' = NoSend
    /\ pc' = "PreUpdate"
    /\ ran' = {}
    /\ UNCHANGED <<entered_initial, last_recv, ncmd, npkt>>

\* the background task of a transport that is connecting reports on the status
\* channel: connected, an error, or it goes away
IoTask ==
    /\ ~panicked
    /\ io_state = "Connecting"
    /\ status_channel = "Empty"
    /\ ~transport_up
    /\ \E report \in {"OkNone", "Error", "Closed"} :
          SetClient([Client EXCEPT !.status_channel = report,
                                   !.transport_up = (report = "OkNone")])
    /\ UNCHANGED <<pc, ran, entered_initial, last_recv, last_send, ncmd, npkt>>

InitClient == ReceiverInit /\ SenderIdle /\ ClientBuilt /\ mode \in Modes /\ ServerIdle /\ TickIdle /\ EngineIdle

NextClient ==
    \/ ReceiveSystem
    \/ HandleConnectionFailureSystem
    \/ StateTransition
    \/ connect_client
    \/ disconnect_client
    \/ DirectConnect
    \/ NoCommand
    \/ PostUpdate
    \/ IoTask

ClientSpec == InitClient /\ [][NextClient]_vars

(***************************************************************************)
(* Host-server (src/lightyear/src/server/replication.rs): the server's     *)
(* entities live in the world of the local client.  A NetworkTarget is the *)
(* set of clients it sends to.  An entity is [replicate, changed,          *)
(* pre_predicted, predicted, interpolated, inserted]: changed is           *)
(* Ref<Replicate>::is_added() || is_changed() for the next run of the      *)
(* system, pre_predicted is "Absent", "Local" (client_entity is None) or   *)
(* "Remote", predicted and interpolated are the marker's confirmed entity  *)
(* (0 without the marker), inserted the markers the last run inserted.     *)
(***************************************************************************)
RemoteClient == ClientId + 1

NetworkTargets == {{ClientId}, {RemoteClient}}

\* NetworkTarget::should_send_to
should_send_to(target, client_id) == client_id \in target

\* the commands the system queues for one entity of its query, applied
add_markers_no_replication_test(h, entity, local_client) ==
    IF h.replicate.present /\ h.changed
    THEN LET from_pre_predicted == h.pre_predicted = "Local"
             from_prediction ==
                 should_send_to(h.replicate.prediction_target, local_client)
             from_interpolation ==
                 should_send_to(h.replicate.interpolation_target, local_client)
         IN  [h EXCEPT
                !.pre_predicted = IF from_pre_predicted THEN "Absent" ELSE @,
                !.predicted = IF from_pre_predicted \/ from_prediction THEN entity ELSE @,
                !.interpolated = IF from_interpolation THEN entity ELSE @,
                !.inserted =
                    (IF from_pre_predicted \/ from_prediction THEN {"Predicted"} ELSE {})
                    \cup (IF from_interpolation THEN {"Interpolated"} ELSE {}),
                !.changed = FALSE]
    ELSE [h EXCEPT !.inserted = {}, !.changed = FALSE]

add_markers(h, entity, local_client) ==
    IF /\ h.replicate.present /\ h.changed
       /\ should_send_to(h.replicate.replication_target, local_client)
    THEN LET from_pre_predicted == h.pre_predicted = "Local"
             from_prediction ==
                 should_send_to(h.replicate.prediction_target, local_client)
             from_interpolation ==
                 should_send_to(h.replicate.interpolation_target, local_client)
         IN  [h EXCEPT
                !.pre_predicted = IF from_pre_predicted THEN "Absent" ELSE @,
                !.predicted = IF from_pre_predicted \/ from_prediction THEN entity ELSE @,
                !.interpolated = IF from_interpolation THEN entity ELSE @,
                !.inserted =
                    (IF from_pre_predicted \/ from_prediction THEN {"Predicted"} ELSE {})
                    \cup (IF from_interpolation THEN {"Interpolated"} ELSE {}),
                !.changed = FALSE]
    ELSE [h EXCEPT !.inserted = {}, !.changed = FALSE]

HostFrame ==
    UNCHANGED <<receiver_vars, sender_vars, client_vars, server_vars, tick_vars, pred, interp>>

\* the system add_prediction_interpolation_components, its commands applied
add_prediction_interpolation_components ==
    /\ host' = [entity \in DOMAIN host |-> add_markers(host[entity], entity, ClientId)]
    /\ HostFrame

\* the application inserts or changes the Replicate of an entity
InsertReplicate ==
    /\ \E entity \in DOMAIN host, replication \in NetworkTargets,
          prediction \in NetworkTargets, interpolation \in NetworkTargets :
          host' = [host EXCEPT ![entity].replicate =
                                   [present |-> TRUE,
                                    replication_target |-> replication,
                                    prediction_target |-> prediction,
                                    interpolation_target |-> interpolation],
                               ![entity].changed = TRUE]
    /\ HostFrame

\* an entity gets a PrePredicted: spawned by the local client, or received from a remote one
InsertPrePredicted ==
    /\ \E entity \in DOMAIN host, origin \in {"Local", "Remote"} :
          /\ host[entity].pre_predicted = "Absent"
          /\ host[entity].predicted = 0
          /\ host' = [host EXCEPT ![entity].pre_predicted = origin]
    /\ HostFrame

NextHost ==
    \/ add_prediction_interpolation_components
    \/ InsertReplicate
    \/ InsertPrePredicted

HostSpec == InitEngine /\ [][NextHost]_vars

(***************************************************************************)
(* Properties of the receiver.                                             *)
(***************************************************************************)
IsActions(m) == m.kind = "Actions"
IsUpdates(m) == m.kind = "Updates"

ActionsIn(messages) == SelectSeq(messages, IsActions)
UpdatesIn(messages) == SelectSeq(messages, IsUpdates)

Channel(g) == ChannelOrDefault(group_channels, g)

Returned(g) == IF g \in DOMAIN returned THEN returned[g] ELSE <<>>

Range(seq) == {seq[i] : i \in DOMAIN seq}

\* the updates a channel holds in buffered_updates, each with its two keys
BufferedSet(channel) ==
    UNION { { [ last_action_tick |-> channel.buffered_updates[i].k,
                remote_tick |-> channel.buffered_updates[i].updates[j].k,
                m |-> channel.buffered_updates[i].updates[j].m ]
              : j \in 1..Len(channel.buffered_updates[i].updates) }
            : i \in 1..Len(channel.buffered_updates) }

BufferedActionIds(channel) ==
    { channel.actions_recv_message_buffer[i].k
        : i \in 1..Len(channel.actions_recv_message_buffer) }

\* the step is a call of read_messages
ReadStep == last_call' = "ReadMessages" /\ nrecv' = nrecv /\ read_messages

\* the step is a call of recv_message
RecvStep == nrecv' = nrecv + 1

\* in a read_messages step: what the call returns for group g
ReturnedNow(g) == IF g \in DOMAIN returned' THEN returned'[g] ELSE <<>>

\* in a read_messages step: latest_tick of g once the actions have been drained,
\* which is where read_buffered_updates splits the buffered updates
LatestAfterActions(g) ==
    LET actions == ActionsIn(ReturnedNow(g))
    IN  IF actions = <<>> THEN group_channels[g].latest_tick
        ELSE actions[Len(actions)].remote_tick

TicksNonDecreasing(messages) ==
    \A i \in 1..(Len(messages) - 1) :
        TickLe(messages[i].remote_tick, messages[i + 1].remote_tick)

TicksIncreasing(messages) ==
    \A i \in 1..(Len(messages) - 1) :
        TickLt(messages[i].remote_tick, messages[i + 1].remote_tick)

\* the number of consecutive sequence ids from id on that are all in ids
RECURSIVE RunLength(_, _)
RunLength(ids, id) == IF id \in ids THEN 1 + RunLength(ids \ {id}, Wrap(id + 1)) ELSE 0

\* C1: in every group the action messages read_messages has returned carry the
\* sequence ids 0, 1, 2, ... in that order, whatever order recv_message got them in:
\* the i-th action returned has sequence id i - 1, so an action is never returned
\* before one with a smaller id.
C1_ActionsInSequenceOrder ==
    \A g \in Groups :
        LET actions == ActionsIn(applied[g])
        IN  \A i \in 1..Len(actions) : actions[i].sequence_id = i - 1

\* three actions of one group have been returned, the later ones with earlier ticks
C1_Witness ==
    \E g \in Groups :
        LET actions == ActionsIn(applied[g])
        IN  /\ Len(actions) = 3
            /\ TickLt(actions[2].remote_tick, actions[1].remote_tick)
            /\ Len(Returned(g)) = 3

\* C2: whenever read_messages has returned an update u of group g, every action
\* message of g whose remote tick is <= u.last_action_tick was returned before u.
C2_UpdateAfterItsActions ==
    \A g \in Groups : \A i \in 1..Len(applied[g]) :
        IsUpdates(applied[g][i]) =>
            \A a \in net :
                ( /\ IsActions(a)
                  /\ a.group_id = g
                  /\ TickLe(a.remote_tick, applied[g][i].last_action_tick) )
                => \E j \in 1..(i - 1) : applied[g][j] = a

\* C3: latest_tick of a group never decreases under the wrapping tick order.
C3_LatestTickNeverDecreases ==
    [][ \A g \in DOMAIN group_channels :
            TickLe(group_channels[g].latest_tick, group_channels'[g].latest_tick) ]_vars

\* buffered actions are never before the cursor, so a dropped one is never read
C4_NoStaleActionBuffered ==
    \A g \in DOMAIN group_channels :
        \A i \in 1..Len(group_channels[g].actions_recv_message_buffer) :
            ~TickLt(group_channels[g].actions_recv_message_buffer[i].k,
                    group_channels[g].actions_pending_recv_message_id)

\* C4: recv_message of an action whose sequence id is before the group's cursor
\* (wrapping comparison) drops it: the group's cursor, action buffer, buffered
\* updates and latest_tick stay as they were and nothing is returned; and no
\* buffered action is ever before the cursor, so a dropped action is never read.
C4_StaleActionDropped ==
    /\ []C4_NoStaleActionBuffered
    /\ [][ RecvStep => \A m \in AnyMessages :
          ( /\ IsActions(m)
            /\ TickLt(m.sequence_id, Channel(m.group_id).actions_pending_recv_message_id)
            /\ recv_message(m) )
          => /\ group_channels'[m.group_id] = Channel(m.group_id)
             /\ last_call' = "ActionsIgnored"
             /\ applied' = applied ]_vars

\* an action was just dropped while the cursor still was 0 (it carried id 65535)
C4_Witness ==
    \E g \in DOMAIN group_channels :
        /\ last_call = "ActionsIgnored"
        /\ group_channels[g].actions_pending_recv_message_id = 0
        /\ DOMAIN group_channels = {g}

\* C5: an update whose remote tick is <= the group's latest_tick is dropped.
\* recv_message does not buffer it (the channel stays as it was); in a
\* read_messages step a buffered update that is ready and whose tick is <= the
\* latest_tick reached by the drained actions leaves the buffer without being
\* returned; every update returned is newer than the latest_tick before the call;
\* and latest_tick ends as it was or as the tick of a message returned by the call.
C5_StaleUpdateDropped ==
    [][ /\ RecvStep => \A m \in AnyMessages :
              ( /\ IsUpdates(m)
                /\ TickLe(m.remote_tick, Channel(m.group_id).latest_tick)
                /\ recv_message(m) )
              => /\ group_channels'[m.group_id] = Channel(m.group_id)
                 /\ last_call' = "UpdatesIgnored"
        /\ ReadStep =>
              \A g \in DOMAIN group_channels :
                  /\ \A b \in BufferedSet(group_channels[g]) :
                        ( /\ TickLe(b.last_action_tick, LatestAfterActions(g))
                          /\ TickLe(b.remote_tick, LatestAfterActions(g)) )
                        => /\ b.m \notin Range(ReturnedNow(g))
                           /\ b \notin BufferedSet(group_channels'[g])
                  /\ \A u \in Range(UpdatesIn(ReturnedNow(g))) :
                        TickLt(LatestAfterActions(g), u.remote_tick)
                  /\ group_channels'[g].latest_tick \in
                        {group_channels[g].latest_tick}
                        \cup {m.remote_tick : m \in Range(ReturnedNow(g))} ]_vars

\* an update was just dropped by recv_message in a group that has applied an update
C5_Witness ==
    \E g \in DOMAIN group_channels :
        /\ last_call = "UpdatesIgnored"
        /\ DOMAIN group_channels = {g}
        /\ UpdatesIn(applied[g]) # <<>>

\* C6 as stated: while the expected action is missing and later ones are buffered,
\* read_messages returns nothing for the group and the later actions stay buffered; once it is there, the call
\* returns the whole contiguous run of buffered actions in sequence order, then
\* updates, with non-decreasing ticks.
C6_NothingWhileActionMissing ==
    [][ ReadStep =>
          \A g \in DOMAIN group_channels :
              LET channel == group_channels[g]
                  ids == BufferedActionIds(channel)
                  run == RunLength(ids, channel.actions_pending_recv_message_id)
              IN  /\ (run = 0 /\ ids # {}) =>
                        /\ ReturnedNow(g) = <<>>
                        /\ group_channels'[g].actions_recv_message_buffer
                               = channel.actions_recv_message_buffer
                  /\ run > 0 =>
                        /\ Len(ActionsIn(ReturnedNow(g))) = run
                        /\ \A i \in 1..run :
                              /\ IsActions(ReturnedNow(g)[i])
                              /\ ReturnedNow(g)[i].sequence_id
                                    = Wrap(channel.actions_pending_recv_message_id + i - 1)
                        /\ TicksNonDecreasing(ReturnedNow(g)) ]_vars

\* C6 (amended): while the expected action is missing, read_messages returns no
\* action for the group (it may return updates that are ready) and the later
\* actions stay buffered; once it is there, the call returns the whole contiguous
\* run of buffered actions in sequence order, then updates, with non-decreasing ticks.
C6_NoActionWhileActionMissing ==
    [][ ReadStep =>
          \A g \in DOMAIN group_channels :
              LET channel == group_channels[g]
                  ids == BufferedActionIds(channel)
                  run == RunLength(ids, channel.actions_pending_recv_message_id)
              IN  /\ run = 0 =>
                        /\ ActionsIn(ReturnedNow(g)) = <<>>
                        /\ group_channels'[g].actions_recv_message_buffer
                               = channel.actions_recv_message_buffer
                  /\ run > 0 =>
                        /\ Len(ActionsIn(ReturnedNow(g))) = run
                        /\ \A i \in 1..run :
                              /\ IsActions(ReturnedNow(g)[i])
                              /\ ReturnedNow(g)[i].sequence_id
                                    = Wrap(channel.actions_pending_recv_message_id + i - 1)
                        /\ TicksNonDecreasing(ReturnedNow(g)) ]_vars

\* one call has just returned two actions and the update they unblocked
C6_Witness ==
    \E g \in DOMAIN returned :
        /\ last_call = "ReadMessages"
        /\ Len(returned[g]) = 3
        /\ IsActions(returned[g][1])
        /\ IsActions(returned[g][2])
        /\ IsUpdates(returned[g][3])
        /\ returned[g][3].last_action_tick = returned[g][2].remote_tick

\* C7: in a read_messages step, an update whose last_action_tick is after the
\* latest_tick the drained actions reach is neither returned nor discarded: it is
\* still in buffered_updates under the same two keys; and recv_message never takes
\* an update out of the buffer.
C7_NotReadyUpdateStaysBuffered ==
    [][ /\ ReadStep =>
              \A g \in DOMAIN group_channels :
                  \A b \in BufferedSet(group_channels[g]) :
                      TickGt(b.last_action_tick, LatestAfterActions(g))
                      => /\ b \in BufferedSet(group_channels'[g])
                         /\ b.m \notin Range(ReturnedNow(g))
        /\ RecvStep =>
              \A g \in DOMAIN group_channels :
                  BufferedSet(group_channels[g]) \subseteq BufferedSet(group_channels'[g])
      ]_vars

\* read_messages has just returned messages of a group and left an update buffered
C7_Witness ==
    \E g \in DOMAIN returned :
        /\ last_call = "ReadMessages"
        /\ \E b \in BufferedSet(group_channels[g]) :
              TickGt(b.last_action_tick, group_channels[g].latest_tick)

\* C8: the remote ticks of the updates returned for one group are strictly
\* increasing over the whole run, and latest_tick is the tick of the last message
\* returned for the group.
C8_UpdateTicksIncrease ==
    \A g \in DOMAIN group_channels :
        /\ TicksIncreasing(UpdatesIn(applied[g]))
        /\ applied[g] # <<>> =>
              group_channels[g].latest_tick = applied[g][Len(applied[g])].remote_tick

\* C9: the update of tick 11 (last_action_tick 0), the spawn (sequence id 0) and the
\* despawn (sequence id 1) are delivered in that order; once the despawn has been
\* applied E is gone and the update has been applied to E.
C9_UpdateAppliedBeforeDespawn ==
    ( /\ delivered = <<UpdateE(0), SpawnE, DespawnE>>
      /\ DespawnE \in Range(applied[1]) )
    => /\ ~is_mapped(remote_entity_map, E)
       /\ \E i \in 1..Len(events) : events[i].type = "spawn"
       /\ \E i \in 1..Len(events) :
             events[i].type = "update" /\ events[i].kind = "Component1"

\* C10: the spawn of tick 65530 and the update of tick 5 (last_action_tick 65530)
\* are applied in that order: the update is never returned before the spawn, and
\* once both have been returned latest_tick is 5.
C10_TickWrap ==
    /\ \A i \in 1..Len(applied[2]) :
          applied[2][i] = UpdateW => \E j \in 1..(i - 1) : applied[2][j] = SpawnW
    /\ ({SpawnW, UpdateW} \subseteq Range(applied[2]))
          => Channel(2).latest_tick = 5

(***************************************************************************)
(* Properties of the client's connection state machine.                    *)
(***************************************************************************)
\* the step takes the NetworkingState to s from another state
Enters(s) == state' = s /\ state # s

\* the step is a run of the receive system that went through to its end
ReceiveCompleted == last_recv'.ran /\ last_recv'.completed /\ "receive" \notin ran

\* C11: every step that enters Connecting rebuilds the ConnectionManager and the
\* client connection: the receiver has no group channel (every cursor is 0, every
\* buffer empty) and no mapped entity, the connection is a new one; and when the
\* spawn action with sequence id 0 then reaches a receiver that has no channel for
\* its group, the same run of receive returns it first and spawns its entity.
C11_ReconnectIsolation ==
    [][ /\ Enters("Connecting") =>
              /\ group_channels' = EmptyMap
              /\ remote_entity_map' = EmptyMap
              /\ remote_entity_to_group' = EmptyMap
              /\ manager_id' = manager_id + 1
              /\ old_cursor' = LargestCursor(group_channels)
              /\ handshake' = 0
              /\ ~synced'
        /\ ( /\ ReceiveCompleted
             /\ 1 \notin DOMAIN group_channels
             /\ \E i \in 1..Len(last_recv'.offered) : last_recv'.offered[i] = ClientSpawn )
           => /\ 1 \in DOMAIN returned'
              /\ returned'[1][1] = ClientSpawn
              /\ group_channels'[1].actions_pending_recv_message_id >= 1
              /\ found_by_remote([map |-> remote_entity_map', world |-> world'], E) ]_vars

\* a second session, after one whose cursor had advanced, has applied its first action
C11_Witness ==
    /\ manager_id >= 3
    /\ old_cursor >= 1
    /\ state = "Connected"
    /\ last_recv.ran /\ last_recv.completed
    /\ 1 \in DOMAIN returned /\ returned[1] = <<ClientSpawn>>
    /\ is_mapped(remote_entity_map, E)

\* C12: every step that enters Disconnected (and the first frame, which enters the
\* initial state) leaves no entity with a Replicated, Predicted or Interpolated
\* marker in the client world: each entity marked before the step is despawned,
\* and the markers are only ever on entities of the world.
C12_NoReceivedEntityAfterDisconnect ==
    [][ /\ marked \subseteq Alive(world)
        /\ (Enters("Disconnected") \/ (~entered_initial /\ entered_initial'))
           => /\ marked' = {}
              /\ \A e \in marked : e \notin Alive(world') ]_vars

\* Disconnected was entered and the entity the spawn action had created, still in
\* the entity map, is gone from the world
C12_Witness ==
    /\ state = "Disconnected"
    /\ pc = "Update"
    /\ marked = {}
    /\ is_mapped(remote_entity_map, E)
    /\ remote_entity_map[E] \notin Alive(world)

\* C13: the NetworkingState starts as Disconnected and every change of it is one of
\* Disconnected -> Connecting, Connecting -> Connected and (any state) ->
\* Disconnected, whatever commands, direct connects and transport reports occur.
C13_OnlyListedTransitions ==
    /\ state = "Disconnected"
    /\ [][ state' # state =>
              \/ state = "Disconnected" /\ state' = "Connecting"
              \/ state = "Connecting" /\ state' = "Connected"
              \/ state' = "Disconnected" ]_vars

\* the events a step adds to those of the frame
NewEvents == SubSeq(net_events', Len(net_events) + 1, Len(net_events'))

\* how many of the events of a sequence are the event ev
RECURSIVE CountOf(_, _)
CountOf(evs, ev) ==
    IF evs = <<>> THEN 0
    ELSE (IF Head(evs) = ev THEN 1 ELSE 0) + CountOf(Tail(evs), ev)

\* C14: every step that enters Connected finds the handshake complete (the client
\* connection is Connected) and, in a client with a transport of its own, the io
\* Connected; the step emits exactly one client ConnectEvent, with the client id
\* of the connection.
C14_ConnectedOnlyWhenIoAndHandshake ==
    [][ Enters("Connected") =>
            /\ net_state' = "Connected"
            /\ mode = "Separate" => (io_state' = "Connected" /\ handshake' = HandshakeSteps)
            /\ Len(net_events') >= Len(net_events)
            /\ CountOf(NewEvents, ConnectEvent) = 1
            /\ ConnectEvent.client_id = ClientId ]_vars

\* the step is a run of handle_connection_failure in the state Connecting
FailureCheckStep == pc = "PreUpdate" /\ "hcf" \notin ran /\ "hcf" \in ran' /\ state = "Connecting"

\* a failure of the connection attempt that handle_connection_failure has seen or sees
FailureVisible ==
    \/ io_state = "Disconnected"
    \/ io_state = "Connecting" /\ status_channel = "Closed"
    \/ net_state = "Disconnected"

\* C15: in the state Connecting, handle_connection_failure asks for Disconnected
\* when the status channel of the io holds an error (the io becomes Disconnected),
\* when that channel is closed, or when the client connection is Disconnected;
\* nothing later in the frame takes the request back, and the StateTransition of
\* the frame moves the state to Disconnected.  A success report makes the io
\* Connected, and with an empty channel the io state, the requested state and the
\* NetworkingState stay as they are.
C15_ConnectingFailure ==
    [][ /\ FailureCheckStep =>
              /\ ( \/ io_state = "Connecting" /\ status_channel \in {"Error", "Closed"}
                   \/ net_state = "Disconnected" ) => next_state' = "Disconnected"
              /\ (io_state = "Connecting" /\ status_channel = "Error")
                    => io_state' = "Disconnected"
              /\ (io_state = "Connecting" /\ status_channel = "OkNone")
                    => /\ io_state' = "Connected"
                       /\ net_state # "Disconnected" => next_state' = next_state
              /\ (io_state = "Connecting" /\ status_channel = "Empty" /\ net_state # "Disconnected")
                    => /\ io_state' = io_state
                       /\ next_state' = next_state
              /\ state' = state
        /\ ( /\ pc = "PreUpdate" /\ pc' = "PreUpdate" /\ "hcf" \in ran
             /\ state = "Connecting" /\ next_state = "Disconnected" /\ FailureVisible )
           => next_state' = "Disconnected" /\ FailureVisible'
        /\ ( /\ pc = "PreUpdate" /\ pc' = "Update"
             /\ state = "Connecting" /\ next_state = "Disconnected" )
           => state' = "Disconnected" ]_vars

\* a connection attempt whose io status channel had an error or was closed has
\* ended in the state Disconnected
C15_Witness ==
    /\ state = "Disconnected"
    /\ pc = "Update"
    /\ manager_id >= 2
    /\ status_channel = "Closed"
    /\ io_state = "Disconnected"
    /\ net_events = <<DisconnectEvent>>

\* C16: every step that takes the state from Connected to Disconnected, whatever
\* its cause, emits exactly one client DisconnectEvent, leaves the sync manager
\* not synced and the client connection disconnected.
C16_DisconnectEventAndUnsynced ==
    [][ (state = "Connected" /\ state' = "Disconnected") =>
            /\ Len(net_events') >= Len(net_events)
            /\ CountOf(NewEvents, DisconnectEvent) = 1
            /\ ~synced'
            /\ net_state' = "Disconnected" ]_vars

\* a session that had received replication messages has ended in Disconnected
C16_Witness ==
    /\ state = "Disconnected"
    /\ pc = "Update"
    /\ 1 \in DOMAIN group_channels
    /\ net_events = <<DisconnectEvent>>
    /\ ~synced

\* the step is the StateTransition schedule of a frame
TransitionStep == pc = "PreUpdate" /\ pc' = "Update"

\* the state, the connection and the ConnectionManager are those before the step,
\* and the step emits no event
ConnectionUntouched ==
    /\ state' = state
    /\ manager_id' = manager_id
    /\ net_state' = net_state
    /\ io_state' = io_state
    /\ handshake' = handshake
    /\ group_channels' = group_channels
    /\ net_events' = net_events

\* C17: when the StateTransition schedule finds the request of a connect_client
\* issued while the state is Connecting or Connected, or of a disconnect_client
\* issued while it is Disconnected, it leaves the state, the client connection and
\* the ConnectionManager as they are and emits no Connect or Disconnect event.
C17_CommandsIdempotent ==
    [][ /\ ( /\ TransitionStep
             /\ state \in {"Connecting", "Connected"}
             /\ next_state = "Connecting" ) => ConnectionUntouched
        /\ ( /\ TransitionStep
             /\ entered_initial
             /\ state = "Disconnected"
             /\ next_state = "Disconnected" ) => ConnectionUntouched ]_vars

\* C18: every step that enters Disconnected closes the transport and leaves no
\* buffered replication message of the session that ended: no group channel of
\* the receiver holds a buffered action or a buffered update.
C18_DisconnectDropsManager ==
    [][ Enters("Disconnected") =>
            /\ net_state' = "Disconnected"
            /\ io_state' \in {"NoIo", "Disconnected"}
            /\ ~transport_up'
            /\ \A g \in DOMAIN group_channels' :
                  /\ group_channels'[g].actions_recv_message_buffer = <<>>
                  /\ group_channels'[g].buffered_updates = <<>> ]_vars

\* the step is a run of the receive system
ReceiveStep == pc = "PreUpdate" /\ "receive" \notin ran /\ last_recv'.ran

\* C19: a run of receive that is handed a packet that does not decode drops it:
\* every packet of the frame is processed, receive goes through to its end, the
\* program does not panic and the connection is in the state try_update left.
C19_MalformedPacketDropped ==
    [][ ( /\ ReceiveStep
          /\ \E i \in 1..Len(last_recv'.offered) : last_recv'.offered[i].kind = "Malformed" )
        => /\ last_recv'.processed = Len(last_recv'.offered)
           /\ last_recv'.completed
           /\ ~panicked'
           /\ net_state' = last_recv'.before ]_vars

\* the step is a run of the send system
SendStep == pc = "PostUpdate" /\ last_send'.ran

\* C20: a failure of the transport does not end a phase.  A run of receive whose
\* try_update returns Err still takes every packet of the frame (it stops only at
\* a packet that does not decode), does not change the NetworkingState and asks
\* for another state only as the state of the client connection tells it to.  A
\* run of send in which the transport refuses a packet still hands every packet
\* of the frame to the transport and changes neither the state, nor the requested
\* state, nor the client connection.
C20_TransportFailureTransient ==
    [][ /\ (ReceiveStep /\ last_recv'.update = "Err") =>
              /\ \/ last_recv'.processed = Len(last_recv'.offered)
                 \/ last_recv'.offered[last_recv'.processed + 1].kind = "Malformed"
              /\ state' = state
              /\ net_state' = last_recv'.before
              /\ next_state' =
                    IF net_state' = "Connected" /\ state # "Connected" THEN "Connected"
                    ELSE IF net_state' = "Disconnected" /\ state # "Disconnected"
                         THEN "Disconnected"
                    ELSE next_state
        /\ (SendStep /\ \E i \in 1..Len(last_send'.results) : last_send'.results[i] = "Err") =>
              /\ last_send'.sent = Len(last_send'.results)
              /\ state' = state
              /\ next_state' = next_state
              /\ net_state' = net_state
              /\ ~panicked' ]_vars

\* a run of send in a connected session whose first packet the transport refused
\* has handed both packets to the transport
C20_Witness ==
    /\ state = "Connected"
    /\ net_state = "Connected"
    /\ last_send.ran
    /\ last_send.results = <<"Err", "Ok">>
    /\ last_send.sent = 2

(***************************************************************************)
(* Properties of apply_world.                                              *)
(***************************************************************************)
\* the step is a call of apply_world
ApplyStep == last_call' = "ApplyWorld" /\ nrecv' = nrecv + 1

\* the message and the group of the call the step makes
AppliedGroupNow == CHOOSE g \in Groups : applied'[g] # <<>>
AppliedNow == applied'[AppliedGroupNow][1]

\* the message and the group of the last call
LastGroup == CHOOSE g \in Groups : applied[g] # <<>>
LastMessage == applied[LastGroup][1]

HasSpawnDespawn(m) ==
    m.kind = "Actions" /\ \E i \in 1..Len(m.body) : m.body[i].spawn /\ m.body[i].despawn

\* the receiver and the world are after the step what they were before it
ReceiverUntouched ==
    /\ world' = world
    /\ remote_entity_map' = remote_entity_map
    /\ remote_entity_to_group' = remote_entity_to_group

\* C21: an action message in which an entity has both spawn and despawn set is
\* not applied at all (the world, the entity map and the group map stay as they
\* are and no event is emitted) and does not bring the program down: the
\* connection is ended in an orderly way.
C21_SpawnDespawnNotApplied ==
    [][ (ApplyStep /\ HasSpawnDespawn(AppliedNow)) =>
            /\ ReceiverUntouched
            /\ events' = <<>>
            /\ ~panicked' ]_vars

\* the receiver as apply_world finds it in a call of ApplySpec
ReceiverBefore == [ReceiverState EXCEPT !.events = <<>>]

\* the receiver after the step is the receiver st
ReceiverIs(st) ==
    /\ world' = st.world
    /\ remote_entity_map' = st.map
    /\ remote_entity_to_group' = st.r2g
    /\ events' = st.events
    /\ panicked' = st.panicked

\* the message m without its entry i
WithoutEntry(m, i) ==
    [m EXCEPT !.body = SubSeq(@, 1, i - 1) \o SubSeq(@, i + 1, Len(@))]

\* entry i of the action message m is a despawn of an entity that is not mapped
UnknownDespawn(m, i) ==
    /\ m.kind = "Actions"
    /\ i \in 1..Len(m.body)
    /\ m.body[i].despawn /\ ~m.body[i].spawn
    /\ ~is_mapped(remote_entity_map, m.body[i].entity)

\* C22: a despawn action for a remote entity that is not in the RemoteEntityMap is
\* ignored: applying the message leaves the receiver and the world exactly as
\* applying the message without that entry does (so the other entries are still
\* processed, and no event is emitted for the entry); a message that holds
\* nothing else changes nothing and emits no event.
C22_UnknownDespawnIgnored ==
    [][ ApplyStep =>
          \A i \in 1..Len(AppliedNow.body) :
             UnknownDespawn(AppliedNow, i) =>
                /\ ReceiverIs(apply_world(ReceiverBefore, WithoutEntry(AppliedNow, i),
                                          AppliedGroupNow))
                /\ Len(AppliedNow.body) = 1 => (ReceiverUntouched /\ events' = <<>>) ]_vars

\* the last message despawned an entity that was not mapped and spawned the other
\* one: the spawn is applied and is the only event
C22_Witness ==
    /\ last_call = "ApplyWorld"
    /\ LastMessage.kind = "Actions"
    /\ LastMessage.body = <<Despawn(W), SpawnPlain(E)>>
    /\ found_by_remote(ReceiverState, E)
    /\ ~is_mapped(remote_entity_map, W)
    /\ Len(events) = 1 /\ events[1].type = "spawn"
    /\ ~panicked

\* entry i of the update message m is for a remote entity without a live local entity
UpdateOfMissing(m, i) ==
    /\ m.kind = "Updates"
    /\ i \in 1..Len(m.body)
    /\ ~found_by_remote(ReceiverState, m.body[i].entity)

\* C23: an entry of an update message whose remote entity has no live local entity
\* is dropped: applying the message leaves the receiver, the world and the events
\* exactly as applying the message without that entry does (the other entries
\* are still applied, no component is written and no event emitted for the
\* entry); a message that holds nothing else changes nothing and emits no event;
\* and no update message ever creates an entity.
C23_NoUpdateOfMissingEntity ==
    [][ (ApplyStep /\ AppliedNow.kind = "Updates") =>
          /\ Alive(world') = Alive(world)
          /\ \A i \in 1..Len(AppliedNow.body) :
                UpdateOfMissing(AppliedNow, i) =>
                   /\ ReceiverIs(apply_world(ReceiverBefore, WithoutEntry(AppliedNow, i),
                                             AppliedGroupNow))
                   /\ Len(AppliedNow.body) = 1 => (ReceiverUntouched /\ events' = <<>>) ]_vars

\* the last message updated an entity that was despawned before and a live one:
\* only the live one was written, with one update event
C23_Witness ==
    /\ last_call = "ApplyWorld"
    /\ nrecv = 3
    /\ LastMessage.kind = "Updates"
    /\ LastMessage.body = <<EntityUpdates(W, <<Val(2)>>), EntityUpdates(E, <<Val(2)>>)>>
    /\ found_by_remote(ReceiverState, E)
    /\ ~is_mapped(remote_entity_map, W)
    /\ world.next = 3
    /\ Alive(world) = {remote_entity_map[E]}
    /\ "Component1" \in DOMAIN world.comps[remote_entity_map[E]]
    /\ world.comps[remote_entity_map[E]]["Component1"] = 2
    /\ events = <<[type |-> "update", entity |-> remote_entity_map[E], kind |-> "Component1"]>>

\* the entry carries a Component4 among its inserts or its updates
HasRef(entry) ==
    \/ \E k \in 1..Len(entry.insert) : entry.insert[k].kind = "Component4"
    \/ \E k \in 1..Len(entry.updates) : entry.updates[k].kind = "Component4"

\* the message has an entry that spawns the remote entity o
SpawnsInMessage(m, o) == \E i \in 1..Len(m.body) : m.body[i].entity = o /\ m.body[i].spawn

\* the receiver and the world after the step
ReceiverAfter == [map |-> remote_entity_map', world |-> world']

\* C24: applying an action message is two-pass.  After the call every entity the
\* message spawns is in the RemoteEntityMap with a live local entity, and the
\* Component4 the message writes on an entity A, referring to an entity B that
\* the same message spawns (before or after A in the message, a cycle included),
\* holds the local entity of B.
C24_TwoPassApply ==
    [][ (ApplyStep /\ AppliedNow.kind = "Actions" /\ ~HasSpawnDespawn(AppliedNow)) =>
          \A j \in 1..Len(AppliedNow.body) :
             LET entry == AppliedNow.body[j]
                 B == Other(entry.entity)
             IN  /\ entry.spawn => found_by_remote(ReceiverAfter, entry.entity)
                 /\ ( /\ ~entry.despawn
                      /\ HasRef(entry)
                      /\ found_by_remote(ReceiverAfter, entry.entity)
                      /\ SpawnsInMessage(AppliedNow, B) )
                    => /\ found_by_remote(ReceiverAfter, B)
                       /\ "Component4" \in DOMAIN world'.comps[remote_entity_map'[entry.entity]]
                       /\ world'.comps[remote_entity_map'[entry.entity]]["Component4"]
                             = remote_entity_map'[B] ]_vars

\* one message spawned two entities that refer to each other: each holds the
\* local entity of the other
C24_Witness ==
    /\ last_call = "ApplyWorld"
    /\ nrecv = 1
    /\ LastMessage.body = <<SpawnRef(E), SpawnRef(W)>>
    /\ remote_entity_map = (E :> 1) @@ (W :> 2)
    /\ world.comps[1]["Component4"] = 2
    /\ world.comps[2]["Component4"] = 1

\* the RemoteEntityMap when the second loop of the Actions arm reaches entry j
MapAtEntry(m, g, j) ==
    apply_actions(apply_spawns(ReceiverBefore, m.body, 1, g), SubSeq(m.body, 1, j - 1), 1).map

\* the Component4 of the local entity of the remote entity e after the step
WrittenRef(e) == world'.comps[remote_entity_map'[e]]["Component4"]

\* the Component4 that the action entries of the step write are mapped
ActionRefsMapped ==
    (ApplyStep /\ AppliedNow.kind = "Actions" /\ ~panicked') =>
        \A j \in 1..Len(AppliedNow.body) :
           LET entry == AppliedNow.body[j]
           IN  ( /\ ~entry.despawn
                 /\ HasRef(entry)
                 /\ found_by_remote(ReceiverAfter, entry.entity) )
               => WrittenRef(entry.entity) =
                     map_entity(MapAtEntry(AppliedNow, AppliedGroupNow, j), Other(entry.entity))

\* the Component4 that the entries of an update message of the step write are mapped
UpdateRefsMapped ==
    (ApplyStep /\ AppliedNow.kind = "Updates") =>
        \A j \in 1..Len(AppliedNow.body) :
           LET entry == AppliedNow.body[j]
           IN  ( /\ \E k \in 1..Len(entry.components) : entry.components[k].kind = "Component4"
                 /\ found_by_remote(ReceiverState, entry.entity) )
               => WrittenRef(entry.entity) = map_entity(remote_entity_map, Other(entry.entity))

\* C25: every component the receiver writes into the world has had its Entity
\* field mapped through the RemoteEntityMap first: a Component4 inserted or
\* updated by an action message, or written by an update message, holds the
\* local entity of the remote entity it referred to, whenever the map knows it.
C25_WrittenComponentsMapped ==
    [][ActionRefsMapped /\ UpdateRefsMapped]_vars

\* C26: in host-server mode the systems receive, sync_update and send never run;
\* the connect system leaves the client connection Connected at once, with no io
\* and no handshake, and asks for Connected, which the next StateTransition
\* enters; entering Connected emits the client ConnectEvent and the server
\* ConnectEvent, entering Disconnected the client DisconnectEvent and the server
\* DisconnectEvent, the server events with the id of the local client.
C26_HostServer ==
    [][ mode = "HostServer" =>
          /\ ~last_recv'.ran
          /\ ~last_send'.ran
          /\ synced' = synced
          /\ group_channels' = group_channels
          /\ Enters("Connecting") =>
                /\ net_state' = "Connected"
                /\ next_state' = "Connected"
                /\ io_state' = "NoIo"
                /\ handshake' = 0
          /\ (TransitionStep /\ state = "Connecting" /\ next_state = "Connected")
                => state' = "Connected"
          /\ Enters("Connected") =>
                /\ Len(net_events') >= Len(net_events)
                /\ NewEvents = <<ConnectEvent, ServerConnectEvent>>
                /\ ServerConnectEvent.client_id = ClientId
          /\ Enters("Disconnected") =>
                /\ Len(net_events') >= Len(net_events)
                /\ NewEvents = <<DisconnectEvent, ServerDisconnectEvent>>
                /\ ServerDisconnectEvent.client_id = ClientId ]_vars

\* a host-server client has entered Connected in this frame
C26_Witness ==
    /\ mode = "HostServer"
    /\ state = "Connected"
    /\ pc = "Update"
    /\ net_state = "Connected"
    /\ io_state = "NoIo"
    /\ net_events = <<ConnectEvent, ServerConnectEvent>>

(***************************************************************************)
(* Properties of a replication group.                                      *)
(***************************************************************************)
\* the local entities the world has handed out so far
LocalEntities == 1..(world.next - 1)

\* the group of a mapped local entity
GroupOfLocal(local) == remote_entity_to_group[get_remote(local)]

\* C27: between receive passes all entities of a replication group are on the same
\* tick: for any two mapped local entities of one group get_confirmed_tick returns
\* the same tick, which is the remote tick of the last message applied to the
\* group; for a local entity that is not mapped it returns None.
C27_GroupOnOneTick ==
    \A l1 \in LocalEntities :
       /\ ~has_remote(l1) => get_confirmed_tick(l1) = None
       /\ has_remote(l1) =>
             /\ get_remote(l1) \in DOMAIN remote_entity_to_group
             /\ applied[GroupOfLocal(l1)] # <<>>
             /\ get_confirmed_tick(l1) =
                   Some(applied[GroupOfLocal(l1)][Len(applied[GroupOfLocal(l1)])].remote_tick)
             /\ \A l2 \in LocalEntities :
                   (has_remote(l2) /\ GroupOfLocal(l2) = GroupOfLocal(l1))
                      => get_confirmed_tick(l2) = get_confirmed_tick(l1)

\* both entities of group 1 are on tick 11 after the update, the entity of group 2
\* is on tick 20
C27_Witness ==
    /\ is_mapped(remote_entity_map, E) /\ is_mapped(remote_entity_map, W)
    /\ is_mapped(remote_entity_map, F)
    /\ get_confirmed_tick(remote_entity_map[E]) = Some(11)
    /\ get_confirmed_tick(remote_entity_map[W]) = Some(11)
    /\ get_confirmed_tick(remote_entity_map[F]) = Some(20)

(***************************************************************************)
(* ServerEvents::into_iter_messages.                                       *)
(***************************************************************************)
MessageValues == { r.message : r \in Received("Message1") \cup Received("Message2") }

\* how many messages of the kind with this value the client has buffered
Buffered(se, c, kind, m) ==
    IF c \in DOMAIN se.events
    THEN Cardinality({ i \in DOMAIN se.events[c].messages[kind] :
                           se.events[c].messages[kind][i].message = m })
    ELSE 0

Yielded(y, c, m) == Cardinality({ i \in DOMAIN y : y[i] = <<m, c>> })

\* C28: a collected into_iter_messages::<M>() call yields every buffered
\* message of type M of every client exactly once, each paired with the id
\* of the client whose buffer held it, and nothing else; afterwards no
\* client has a message of type M left, so that a second call yields none;
\* the buffered messages of every other type are as they were.
C28_IterMessagesDrainsOneType ==
    [][iterated'.called =>
        LET K == iterated'.kind
            Y == iterated'.yielded
        IN  /\ \A i \in DOMAIN Y : Y[i] \in MessageValues \X Clients
            /\ \A c \in Clients, m \in MessageValues :
                   Yielded(Y, c, m) = Buffered(server_events, c, K, m)
            /\ ~has_messages(server_events', K)
            /\ \A o \in IterOrders(server_events'.events) :
                   into_iter_messages(server_events', K, o).yielded = <<>>
            /\ DOMAIN server_events'.events = DOMAIN server_events.events
            /\ \A c \in DOMAIN server_events.events, k \in MessageKinds \ {K} :
                   server_events'.events[c].messages[k] = server_events.events[c].messages[k]
    ]_vars

\* the case of test_iter_messages: three Message1 of two clients were
\* yielded, and a Message2 is still buffered
C28_Witness ==
    /\ iterated.called
    /\ iterated.kind = "Message1"
    /\ Len(iterated.yielded) = 3
    /\ { iterated.yielded[i][2] : i \in DOMAIN iterated.yielded } = Clients
    /\ has_messages(server_events, "Message2")
    /\ ~has_messages(server_events, "Message1")

(***************************************************************************)
(* Liveness of the action messages.                                        *)
(***************************************************************************)
PassedToRecv(g, s) == \E i \in DOMAIN delivered : delivered[i] = LiveMessage(g, s)

AllLive(g) == [i \in 1..(MaxSeqId + 1) |-> LiveMessage(g, i - 1)]

AllPassed(g) == \A s \in LiveIds : PassedToRecv(g, s)

IsPrefix(p, q) == Len(p) <= Len(q) /\ p = SubSeq(q, 1, Len(p))

\* C29: for every group, what read_messages has returned for the group is
\* always a prefix of its action messages 0..MaxSeqId in sequence order,
\* each once; and once each of them has been passed to recv_message (in
\* any order, with any duplication), eventually all of them have been
\* returned.
C29_ActionsEventuallyReturnedInOrder ==
    \A g \in Groups :
        /\ [](IsPrefix(applied[g], AllLive(g)))
        /\ AllPassed(g) ~> (applied[g] = AllLive(g))

\* the last message arrived first and one message arrived twice, and all
\* were returned in sequence order
C29_Witness ==
    /\ delivered /= <<>>
    /\ delivered[1] = LiveMessage(1, MaxSeqId)
    /\ \E i, j \in DOMAIN delivered : i /= j /\ delivered[i] = delivered[j]
    /\ applied[1] = AllLive(1)

(***************************************************************************)
(* The order of Tick and MessageId.                                        *)
(***************************************************************************)
AsI16(x) == IF x >= HalfRange THEN x - TickMod ELSE x

GeneratedTicks == { generated[i].tick : i \in DOMAIN generated }

\* C30: A < B on ticks is "(A - B) mod 2^16 read as an i16 is negative";
\* on the ticks generated within a window narrower than 2^15 it is a strict
\* total order (irreflexive, asymmetric, transitive, total), and A < B
\* exactly when A was generated before B, also across the 65535 -> 0 wrap;
\* the comparisons of the receiver (<, <=) follow that order.
C30_TickOrderIsSignedWrap ==
    /\ \A a, b \in GeneratedTicks :
           /\ TickLt(a, b) <=> AsI16((a - b) % TickMod) < 0
           /\ ~TickLt(a, a)
           /\ TickLt(a, b) => ~TickLt(b, a)
           /\ a /= b => TickLt(a, b) \/ TickLt(b, a)
           /\ \A c \in GeneratedTicks : TickLt(a, b) /\ TickLt(b, c) => TickLt(a, c)
    /\ \A i, j \in DOMAIN generated :
           /\ TickLt(generated[i].tick, generated[j].tick)
                  <=> generated[i].index < generated[j].index
           /\ UpdateIsNewer(generated[i].tick, generated[j].tick)
                  <=> generated[i].index < generated[j].index
           /\ ActionTooOld(generated[i].tick, generated[j].tick)
                  <=> generated[i].index < generated[j].index
           /\ UpdateTooOld(generated[i].tick, generated[j].tick)
                  <=> generated[i].index <= generated[j].index

\* three ticks of one window, the first before the wrap and the last after it
C30_Witness ==
    /\ Len(generated) = MaxTicks
    /\ generated[1].tick > generated[Len(generated)].tick
    /\ TickLt(generated[1].tick, generated[Len(generated)].tick)

(***************************************************************************)
(* Rollback of the predicted history.                                      *)
(***************************************************************************)
RECURSIVE SumInputs(_, _)
SumInputs(inputs, ticks) ==
    IF ticks = {} THEN 0
    ELSE LET t == CHOOSE x \in ticks : TRUE
         IN  inputs[t] + SumInputs(inputs, ticks \ {t})

\* C31: after a confirmed value for tick T that differed from the predicted
\* history at T, history[T] is the confirmed value, every later history
\* entry is the simulation of its tick from the entry before it with the
\* stored input, and the current predicted value is the confirmed value
\* advanced by the stored inputs of the ticks (T, current tick]; a confirmed
\* value is taken as matching only if it equals history[T].
C31_RollbackCorrect ==
    /\ pred.last.op = "Rollback" =>
           LET T == pred.last.tick
               v == pred.last.confirmed
           IN  /\ pred.history[T] = v
               /\ \A t \in (T + 1)..pred.tick :
                      pred.history[t] = pred.history[t - 1] + pred.inputs[t]
               /\ pred.value = pred.history[pred.tick]
               /\ pred.value = v + SumInputs(pred.inputs, (T + 1)..pred.tick)
    /\ pred.last.op = "Match" => pred.history[pred.last.tick] = pred.last.confirmed

\* the scenario of the spec: at tick 50, moving by 1 per tick, tick 48 is
\* confirmed with the value 2 and the current value becomes 4
C31_Witness ==
    /\ pred.tick = 50
    /\ pred.last = [op |-> "Rollback", tick |-> 48, confirmed |-> 2]
    /\ pred.inputs[49] = 1 /\ pred.inputs[50] = 1
    /\ pred.history[48] = 2
    /\ pred.value = 4

(***************************************************************************)
(* Interpolation between the bracketing snapshots.                         *)
(***************************************************************************)
Min(a, b) == IF a <= b THEN a ELSE b
Max(a, b) == IF a <= b THEN b ELSE a

\* C32: a frame at render tick r shows, when the buffer holds a snapshot at
\* or before r and one after r, the linear interpolation of the two
\* snapshots next to r (the latest at or before r, the earliest after r)
\* at (r - start.tick) / (end.tick - start.tick), which lies between their
\* two values; when no snapshot is after r it shows the newest snapshot's
\* value, never a value extrapolated past it; with no snapshot at or
\* before r nothing is shown.
C32_InterpolationBracketed ==
    LET r == interp.render_tick
        b == interp.buffer
        at_or_before == { i \in DOMAIN b : b[i].tick <= r }
        after == { i \in DOMAIN b : b[i].tick > r }
    IN  interp.shown.kind /= "None" =>
          /\ (at_or_before /= {} /\ after /= {}) =>
                \E i \in at_or_before :
                   /\ i + 1 \in after
                   /\ interp.shown.kind = "Lerp"
                   /\ interp.shown.value.den = b[i + 1].tick - b[i].tick
                   /\ interp.shown.value.num - b[i].value * interp.shown.value.den
                        = (b[i + 1].value - b[i].value) * (r - b[i].tick)
                   /\ Min(b[i].value, b[i + 1].value) * interp.shown.value.den
                        <= interp.shown.value.num
                   /\ interp.shown.value.num
                        <= Max(b[i].value, b[i + 1].value) * interp.shown.value.den
          /\ (at_or_before /= {} /\ after = {}) =>
                /\ interp.shown.kind = "Hold"
                /\ interp.shown.value = [num |-> b[Len(b)].value, den |-> 1]
          /\ at_or_before = {} => interp.shown.kind = "NotVisible"

\* the scenario of the spec: the snapshots 10 and 20 at ticks 102 and 104 are
\* next to render tick 103 (step 1 has dropped what is older than tick 102)
\* and the frame shows 15
C32_Witness ==
    /\ interp.render_tick = 103
    /\ Len(interp.buffer) = 2
    /\ interp.buffer[1] = [tick |-> 102, value |-> 10]
    /\ interp.buffer[2] = [tick |-> 104, value |-> 20]
    /\ interp.shown.kind = "Lerp"
    /\ interp.shown.value.num = 15 * interp.shown.value.den

(***************************************************************************)
(* At-most-once release of a message.                                      *)
(***************************************************************************)
\* C34: for every group, no two of the messages read_messages has returned
\* are actions with the same sequence id, and no two are updates with the
\* same remote tick, whatever was handed to recv_message and when.
C34_AtMostOnce ==
    \A g \in Groups : \A i, j \in DOMAIN applied[g] :
        i /= j =>
            LET a == applied[g][i]
                b == applied[g][j]
            IN  /\ ~(a.kind = "Actions" /\ b.kind = "Actions"
                       /\ a.sequence_id = b.sequence_id)
                /\ ~(a.kind = "Updates" /\ b.kind = "Updates"
                       /\ a.remote_tick = b.remote_tick)

\* the remote entities of the message m whose entry asks for a spawn and that
\* the map does not hold before the call
NewlySpawned(m) ==
    {m.body[i].entity : i \in {j \in 1..Len(m.body) :
          m.body[j].spawn /\ ~is_mapped(remote_entity_map, m.body[j].entity)}}

\* the events of the given type that the step emitted
EventsOf(type) == {i \in 1..Len(events') : events'[i].type = type}

\* no two remote entities of the map have the same local entity
OneToOne(map) == \A r1, r2 \in DOMAIN map : map[r1] = map[r2] => r1 = r2

\* C35: after any sequence of apply_world calls the RemoteEntityMap is
\* one-to-one and remote_entity_to_group holds exactly the remote entities of
\* the map; a spawn for a remote entity that is already mapped creates no
\* second local entity and emits no spawn event (the call creates one local
\* entity and one spawn event for each remote entity it maps for the first
\* time, and the mapped ones keep their local entity unless the message
\* despawns them), and a despawn removes the entity from both maps.
C35_EntityMapsConsistent ==
    [][ ApplyStep =>
        /\ OneToOne(remote_entity_map')
        /\ DOMAIN remote_entity_to_group' = DOMAIN remote_entity_map'
        /\ (AppliedNow.kind = "Actions" /\ ~HasSpawnDespawn(AppliedNow)) =>
          /\ world'.next - world.next = Cardinality(NewlySpawned(AppliedNow))
          /\ Cardinality(EventsOf("spawn")) = Cardinality(NewlySpawned(AppliedNow))
          /\ \A i \in 1..Len(AppliedNow.body) :
                LET entry == AppliedNow.body[i]
                IN  /\ (entry.spawn /\ is_mapped(remote_entity_map, entry.entity)) =>
                          /\ is_mapped(remote_entity_map', entry.entity)
                          /\ remote_entity_map'[entry.entity]
                                = remote_entity_map[entry.entity]
                    /\ entry.despawn =>
                          /\ ~is_mapped(remote_entity_map', entry.entity)
                          /\ entry.entity \notin DOMAIN remote_entity_to_group' ]_vars

\* the last message spawned an entity that was already mapped: the maps hold it
\* once, the call created no entity and emitted no spawn event
C35_Witness ==
    /\ last_call = "ApplyWorld" /\ nrecv >= 2 /\ ~panicked
    /\ LastMessage.kind = "Actions"
    /\ \E i \in 1..Len(LastMessage.body) : LastMessage.body[i].spawn
    /\ \A i \in 1..Len(LastMessage.body) :
          ~LastMessage.body[i].spawn \/ is_mapped(remote_entity_map, LastMessage.body[i].entity)
    /\ \A i \in 1..Len(events) : events[i].type # "spawn"
    /\ DOMAIN remote_entity_map # {}

\* the channel of the group g, created or not
ChannelOf(channels, g) == ChannelOrDefault(channels, g)

\* the action the cursor of the channel waits for is in its buffer
ActionReady(channel) ==
    \E i \in 1..Len(channel.actions_recv_message_buffer) :
       channel.actions_recv_message_buffer[i].k = channel.actions_pending_recv_message_id

\* the channel holds actions, and not the one its cursor waits for
ActionMissing(channel) ==
    channel.actions_recv_message_buffer # <<>> /\ ~ActionReady(channel)

\* the message the recv_message call of the step is given
ReceivedNow == delivered'[Len(delivered')]

\* C36: groups are independent: a recv_message for one group leaves the channel
\* of every other group (cursor, action buffer, buffered updates, latest_tick)
\* as it is, a read_messages leaves each channel and returns for each group what
\* reading that channel alone gives, and a group whose pending action is
\* buffered has it returned by the read whatever the other groups are missing.
C36_GroupsIndependent ==
    [][ /\ (RecvStep /\ delivered' # delivered) =>
              \A h \in Groups :
                 h # ReceivedNow.group_id =>
                    /\ (h \in DOMAIN group_channels') = (h \in DOMAIN group_channels)
                    /\ ChannelOf(group_channels', h) = ChannelOf(group_channels, h)
        /\ ReadStep =>
              \A h \in DOMAIN group_channels :
                 LET alone == channel_read_messages(group_channels[h])
                 IN  /\ group_channels'[h] = alone.channel
                     /\ (IF h \in DOMAIN returned' THEN returned'[h] ELSE <<>>) = alone.res
                     /\ ActionReady(group_channels[h]) =>
                           /\ h \in DOMAIN returned'
                           /\ returned'[h][1].kind = "Actions"
                           /\ returned'[h][1].sequence_id
                                 = group_channels[h].actions_pending_recv_message_id
                           /\ ~ActionReady(group_channels'[h]) ]_vars

\* a read has returned an action of one group while the other group still
\* waits for an action that has not arrived
C36_Witness ==
    /\ last_call = "ReadMessages"
    /\ \E a, b \in DOMAIN group_channels :
          /\ a # b
          /\ ActionMissing(group_channels[a])
          /\ b \in DOMAIN returned
          /\ returned[b][1].kind = "Actions"
          /\ a \notin DOMAIN returned

\* the events of the step about the local entity, its spawn aside
EventsAbout(local) ==
    SelectSeq(events', LAMBDA ev : ev.entity = local /\ ev.type # "spawn")

\* the events of the inserts, then of the removes, then of the updates of an entry
EntryEvents(entry, local) ==
    [i \in 1..Len(entry.insert) |->
        [type |-> "insert", entity |-> local, kind |-> entry.insert[i].kind]]
    \o [i \in 1..Len(entry.remove) |->
        [type |-> "remove", entity |-> local, kind |-> entry.remove[i]]]
    \o [i \in 1..Len(entry.updates) |->
        [type |-> "update", entity |-> local, kind |-> entry.updates[i].kind]]

\* the kinds the entry inserts and removes and does not update
InsertedAndRemoved(entry) ==
    ({entry.insert[i].kind : i \in 1..Len(entry.insert)}
        \cap {entry.remove[i] : i \in 1..Len(entry.remove)})
    \ {entry.updates[i].kind : i \in 1..Len(entry.updates)}

\* the entity of the entry is unmapped before the call and the entry has no spawn
UnmappedEntry(entry) == ~entry.spawn /\ ~is_mapped(remote_entity_map, entry.entity)

\* C37: within one entity's entry of an action message a despawn overrides
\* everything else (the only event about the entity is its despawn, and the
\* entity is gone), and otherwise the inserts are applied first, then the
\* removes, then the updates, so that a kind the entry inserts and removes is
\* absent afterwards; an entry for an unmapped entity without spawn is skipped
\* and the other entries are applied as without it.
C37_EntryOrder ==
    [][ (ApplyStep /\ AppliedNow.kind = "Actions" /\ ~HasSpawnDespawn(AppliedNow)) =>
          \A i \in 1..Len(AppliedNow.body) :
             LET entry == AppliedNow.body[i]
             IN  /\ (entry.despawn /\ is_mapped(remote_entity_map, entry.entity)) =>
                       LET local == remote_entity_map[entry.entity]
                       IN  /\ EventsAbout(local)
                                = <<[type |-> "despawn", entity |-> local, kind |-> ""]>>
                           /\ local \notin Alive(world')
                 /\ (~entry.despawn /\ ~UnmappedEntry(entry)) =>
                       LET local == remote_entity_map'[entry.entity]
                       IN  /\ EventsAbout(local) = EntryEvents(entry, local)
                           /\ \A kind \in InsertedAndRemoved(entry) :
                                 kind \notin DOMAIN world'.comps[local]
                 /\ UnmappedEntry(entry) =>
                       ReceiverIs(apply_world(ReceiverBefore, WithoutEntry(AppliedNow, i),
                                              AppliedGroupNow)) ]_vars

\* the last message despawned a mapped entity with an entry that also carried
\* components, and inserted and removed the same kind on the other entity,
\* which lives without that kind
C37_Witness ==
    /\ last_call = "ApplyWorld" /\ ~panicked /\ nrecv >= 2
    /\ Len(LastMessage.body) = 2
    /\ \E i, j \in 1..2 :
          /\ LastMessage.body[i] = DespawnAll(LastMessage.body[i].entity)
          /\ \E k \in 1..Len(events) : events[k].type = "despawn"
          /\ LastMessage.body[j] = InsertRemove(LastMessage.body[j].entity)
          /\ is_mapped(remote_entity_map, LastMessage.body[j].entity)
          /\ DOMAIN world.comps[remote_entity_map[LastMessage.body[j].entity]]
                = {"Component4"}


\* C38: in host-server mode an entity whose Replicate was added or changed
\* gets the Predicted marker only if its replication_target includes the local
\* client and its prediction_target includes the local client or it is a
\* PrePredicted entity spawned by the local client, whose PrePredicted is then
\* removed; it gets the Interpolated marker only if its replication_target and
\* its interpolation_target include the local client; the confirmed entity of a
\* marker is the entity itself and the run creates no entity.
C38_HostServerMarkers ==
    [][ add_prediction_interpolation_components =>
          /\ DOMAIN host' = DOMAIN host
          /\ \A entity \in DOMAIN host :
                LET before == host[entity]
                    after == host'[entity]
                    replicated ==
                        /\ before.replicate.present /\ before.changed
                        /\ ClientId \in before.replicate.replication_target
                IN  /\ "Predicted" \in after.inserted =>
                          /\ replicated
                          /\ \/ ClientId \in before.replicate.prediction_target
                             \/ before.pre_predicted = "Local"
                          /\ after.predicted = entity
                    /\ "Interpolated" \in after.inserted =>
                          /\ replicated
                          /\ ClientId \in before.replicate.interpolation_target
                          /\ after.interpolated = entity
                    /\ (replicated /\ before.pre_predicted = "Local") =>
                          /\ "Predicted" \in after.inserted
                          /\ after.pre_predicted = "Absent"
                    /\ after.inserted = {} =>
                          /\ after.predicted = before.predicted
                          /\ after.interpolated = before.interpolated
                          /\ after.pre_predicted = before.pre_predicted
                    /\ after.predicted \in {0, entity}
                    /\ after.interpolated \in {0, entity} ]_vars

\* a run has given Predicted to an entity the local client pre-predicted whose
\* prediction_target leaves the local client out, and nothing to an entity
\* whose changed Replicate is not replicated to the local client
C38_Witness ==
    \E a, b \in DOMAIN host :
       /\ host[a].inserted = {"Predicted"}
       /\ host[a].predicted = a
       /\ host[a].pre_predicted = "Absent"
       /\ ClientId \notin host[a].replicate.prediction_target
       /\ host[b].replicate.present
       /\ ClientId \notin host[b].replicate.replication_target
       /\ ClientId \in host[b].replicate.prediction_target
       /\ ~host[b].changed
       /\ host[b].predicted = 0

\* ServerEvents::is_empty
is_empty(se) == se.empty

\* the step records a connection, a disconnection
ConnectionPushed == Len(server_events'.connections) = Len(server_events.connections) + 1
DisconnectionPushed ==
    Len(server_events'.disconnections) = Len(server_events.disconnections) + 1

\* the client whose disconnection the step records
DisconnectedNow == server_events'.disconnections[Len(server_events'.disconnections)]

\* the step stores the non-empty events of a client
EventsPushed ==
    \E c \in DOMAIN server_events'.events :
       /\ ~ConnectionEvents_is_empty(server_events'.events[c])
       /\ c \in DOMAIN server_events.events =>
             server_events'.events[c] # server_events.events[c]

\* an iteration over se yields a message of the client, for some type and order
has_client_messages(se, client_id) ==
    \E kind \in MessageKinds, order \in IterOrders(se.events) :
       LET r == into_iter_messages(se, kind, order)
       IN  \E i \in 1..Len(r.yielded) : r.yielded[i][2] = client_id

\* C39: push_disconnection(c) discards the events already pushed for c and
\* leaves those of the other clients, so that no message of c is delivered
\* after it; push_events with an empty ConnectionEvents changes nothing; and
\* is_empty() is true after new() and clear() and turns false exactly at the
\* first connection, disconnection or non-empty events push.
C39_DisconnectionDiscardsEvents ==
    [][ /\ DisconnectionPushed =>
              /\ DisconnectedNow \notin DOMAIN server_events'.events
              /\ DOMAIN server_events'.events = DOMAIN server_events.events \ {DisconnectedNow}
              /\ \A c \in DOMAIN server_events'.events :
                    server_events'.events[c] = server_events.events[c]
              /\ ~has_client_messages(server_events', DisconnectedNow)
        /\ \A c \in Clients :
              push_events(server_events', c, ConnectionEvents_new) = server_events'
        /\ server_events' = ServerEvents_new => is_empty(server_events')
        /\ is_empty(server_events) =>
              (is_empty(server_events')
                  <=> ~(ConnectionPushed \/ DisconnectionPushed \/ EventsPushed)) ]_vars

\* a client's disconnection is recorded, the events hold the other client alone
\* and an iteration has delivered that client's messages
C39_Witness ==
    /\ ~is_empty(server_events)
    /\ \E c, d \in Clients :
          /\ server_events.disconnections = <<c>>
          /\ DOMAIN server_events.events = {d} /\ c # d
          /\ iterated.called /\ iterated.yielded # <<>>
          /\ \A i \in 1..Len(iterated.yielded) : iterated.yielded[i][2] = d

\* no ConnectEvent of evs follows a ConnectEvent, the event before evs being of type last
RECURSIVE Alternate(_, _)
Alternate(evs, last) ==
    \/ evs = <<>>
    \/ /\ ~(Head(evs).type = "ConnectEvent" /\ last = "ConnectEvent")
       /\ Alternate(Tail(evs), Head(evs).type)

\* C40: the client's connect and disconnect events alternate: a ConnectEvent is
\* never sent while the last client event sent is a ConnectEvent, whatever the
\* interleaving of commands and transport changes.
C40_EventsAlternate ==
    [][ Alternate(ClientEvents(NewEvents), last_event) ]_vars


====
